---- MODULE Spec2Model ----
(***************************************************************************)
(* State-machine model of the CementOS frontend:                           *)
(*   - services/api.ts            (CementOSAPI: session id, requests)      *)
(*   - components/FloatingChatbot (chat widget, health check, fallback)    *)
(*   - components/modals/ProfileModal (plant profile, lists, add forms)    *)
(*   - components/dashboard/APIStatusIndicator (periodic health polling)   *)
(*   - components/dashboard/APIDemo (optimization and status calls)        *)
(*   - pages/Settings (user list)                                          *)
(*   - pages/Testing, testing/KPITestConfiguration, LiveTestExecution      *)
(*   - testing/SavedScenariosManager (saved test scenarios)                *)
(*   - dashboard/QuickActionsPanel (simulated optimization, panel chat)    *)
(* Each component has its own specification over the shared variables.     *)
(***************************************************************************)
EXTENDS Integers, Sequences, FiniteSets, TLC

VARIABLES
    \* ---- services/api.ts ----
    sessionId,        \* CementOSAPI.sessionId (in-memory field)
    storage,          \* localStorage['cemenos_session_id'] (NoId = null)
    requests,         \* HTTP requests issued through makeRequest, in order
    resets,           \* number of resetSession calls so far
    loads,            \* number of page loads (constructions of CementOSAPI)
    settlements,      \* the settled requests: outcome of fetch and result
    \* ---- FloatingChatbot.tsx ----
    chatMounted,      \* the mount effect has run
    message,          \* input box
    isLoading,
    isConnected,
    chatHistory,
    exchanges,        \* one record per accepted send: its awaited promise
    healthInFlight,   \* health checks of the widget awaiting their response
    healthStarted,    \* health checks started by the widget
    retryClicks,      \* clicks on the retry-connection button
    lastHealth,       \* outcome of the most recently completed health check
    chatToast,        \* argument of the latest toast() call of the widget
    \* ---- ProfileModal.tsx ----
    teamMembers,
    isAddingMember,
    newMember,
    profileToast,     \* argument of the latest toast() call of the modal
    profileMounted,   \* an instance of ProfileModal is mounted
    profileMounts,    \* mounts of ProfileModal so far
    isEditing,
    plantInfo,
    plantInfoAtEdit,  \* plantInfo as it was when the current edit began
    metricObjects,    \* the objects created by the operationalMetrics literal
    metrics,          \* the metrics array: references into metricObjects
    isEditingMetrics,
    projects,
    isAddingProject,
    newProject,
    compliance,
    isAddingCert,
    newCert,
    \* ---- APIStatusIndicator.tsx ----
    statusMounted,
    statusInst,       \* which mount of the component is the current one
    statusInterval,   \* instance owning the live 30 s interval, 0 = none
    statusIsConnected,
    statusIsChecking,
    lastChecked,
    statusChecks,     \* every health check started by the indicator
    completedOrder,   \* ids of the completed checks, in order of completion
    ticks,            \* fired 30 s timer ticks
    now,              \* wall clock read by new Date()
    \* ---- APIDemo.tsx ----
    demoMounted,
    isOptimizing,
    optimizationResult,
    plantCapacity,
    objective,
    systemStatus,
    isLoadingStatus,
    demoToast,        \* argument of the latest toast() call of the demo
    demoCalls,        \* one record per call of handleOptimize / fetchSystemStatus
    \* ---- pages/Settings ----
    activeTab,
    usersList,
    settingsIsEditing,  \* the isEditing state of Settings
    lastDeleteUser,   \* argument of the latest handleDeleteUser call
    \* ---- pages/Testing, KPITestConfiguration.tsx ----
    activeTest,
    isCreatingTest,
    selectedObjective,
    testName,
    \* ---- LiveTestExecution.tsx ----
    progress,         \* in tenths of a percent
    elapsedTime,
    isPaused,
    liveKPIs,
    liveInterval,     \* the 100 ms interval of the effect is live
    \* ---- SavedScenariosManager ----
    scenarios,
    newScenarioName,
    dateNow,          \* the value Date.now() returns
    \* ---- QuickActionsPanel ----
    panelMounted,
    panelInst,        \* which mount of the panel is the current one
    panelIsOptimizing,  \* the isOptimizing state of the panel
    optimizationProgress,
    panelIntervals,   \* the live 200 ms intervals: owner and its last state
    chatMessage,
    panelChatHistory, \* the chatHistory state of the panel
    replyTimers       \* the pending 1 s timeouts, in the order they were set

apiVars     == <<sessionId, storage, requests, resets, loads>>
chatVars    == <<chatMounted, message, isLoading, isConnected, chatHistory,
                 exchanges, healthInFlight, healthStarted, retryClicks,
                 lastHealth, chatToast>>
teamVars    == <<teamMembers, isAddingMember, newMember>>
plantVars   == <<isEditing, plantInfo, plantInfoAtEdit>>
metricVars  == <<metricObjects, metrics, isEditingMetrics>>
projectVars == <<projects, isAddingProject, newProject>>
certVars    == <<compliance, isAddingCert, newCert>>
profileVars == <<teamVars, profileToast, profileMounted, profileMounts,
                 plantVars, metricVars, projectVars, certVars>>
statusVars  == <<statusMounted, statusInst, statusInterval, statusIsConnected,
                 statusIsChecking, lastChecked, statusChecks, completedOrder,
                 ticks, now>>
fetchVars   == <<settlements>>
demoVars    == <<demoMounted, isOptimizing, optimizationResult, plantCapacity,
                 objective, systemStatus, isLoadingStatus, demoToast, demoCalls>>
settingsVars == <<activeTab, usersList, settingsIsEditing, lastDeleteUser>>
formVars    == <<selectedObjective, testName>>
liveVars    == <<progress, elapsedTime, isPaused, liveKPIs, liveInterval>>
testingVars == <<activeTest, isCreatingTest, formVars, liveVars>>
scenarioVars == <<scenarios, newScenarioName, dateNow>>
optVars     == <<panelIsOptimizing, optimizationProgress, panelIntervals>>
panelChatVars == <<chatMessage, panelChatHistory, replyTimers>>
panelVars   == <<panelMounted, panelInst, optVars, panelChatVars>>
pagesVars   == <<settingsVars, testingVars, scenarioVars, panelVars>>
vars        == <<apiVars, fetchVars, chatVars, profileVars, statusVars,
                 demoVars, pagesVars>>

(***************************************************************************)
(* Bounds of the model.                                                    *)
(***************************************************************************)
MaxSends    == 2    \* accepted sends of the chat widget
MaxRetries  == 1    \* clicks on the retry-connection button
MaxApiCalls == 2    \* direct calls of sendMessage / deleteSession
MaxResets   == 2    \* calls of resetSession
MaxLoads    == 2    \* page loads
MaxAdds     == 1    \* members in the list that were added through the form
MaxDeletes  == 2    \* how far the list may shrink below its initial length
MaxProfileMounts == 2   \* mounts of the profile modal
MaxEdits    == 2    \* edits of the profile standing at a time
MaxChecks   == 3    \* health checks started by the status indicator
MaxMounts   == 2    \* mounts of the status indicator
MaxTime     == 2    \* clock readings
MaxDemoCalls == 2   \* calls started from the API demo panel
MaxElapsed  == 1002 \* ticks of a live test (the cap of progress is at 1000)
MaxShortTicks == 2  \* ticks of a live test on the Testing page
MaxMillis   == 1    \* milliseconds the clock of Date.now() advances
MaxScenarioAdds == 2    \* scenarios saved or duplicated at a time
MaxCopies   == 1    \* (Copy) suffixes in the name of a scenario
MaxPanelMounts == 2 \* mounts of the quick actions panel
MaxPanelSends == 2  \* messages sent in the chat of the panel

(***************************************************************************)
(* services/api.ts                                                         *)
(***************************************************************************)
NoId == "null"                       \* null / undefined / absent argument
\* values of 'cemenos_' + Math.random().toString(36).substring(2, 15)
SessionIds == {"cemenos_a", "cemenos_b"}
CustomIds  == {"custom_x"}

\* JavaScript truthiness of an optional string
Truthy(s) == s # NoId /\ s # ""

\* variant: the stored id is never read
getSessionIdAlwaysNew(stored, gen) ==
    [sessionId |-> gen, storage |-> gen]

\* getSessionId: gen is the value Math.random() would produce if needed
getSessionId(stored, gen) ==
    IF ~Truthy(stored)
    THEN [sessionId |-> gen, storage |-> gen]
    ELSE [sessionId |-> stored, storage |-> stored]

\* outcomes of fetch(url, options) followed by response.json()
FetchOutcomes == {"ok_success", "ok_unsuccessful", "http_error",
                  "network_error", "invalid_json"}

ServerReply == "live reply"
ProcessingTimes == {12}              \* processing_time_ms of a server reply

\* variant: response.ok is not checked, the body of an error page is returned
makeRequestNoOkCheck(outcome) ==
    CASE outcome = "ok_success" ->
           [rejected |-> FALSE, success |-> TRUE, response |-> ServerReply,
            processing_time_ms |-> CHOOSE t \in ProcessingTimes : TRUE]
      [] outcome \in {"ok_unsuccessful", "http_error"} ->
           [rejected |-> FALSE, success |-> FALSE, response |-> "",
            processing_time_ms |-> 0]
      [] OTHER ->
           [rejected |-> TRUE, success |-> FALSE, response |-> "",
            processing_time_ms |-> 0]

\* makeRequest: resolves with the parsed body, or rejects
makeRequest(outcome) ==
    CASE outcome = "ok_success" ->
           [rejected |-> FALSE, success |-> TRUE, response |-> ServerReply,
            processing_time_ms |-> CHOOSE t \in ProcessingTimes : TRUE]
      [] outcome = "ok_unsuccessful" ->
           [rejected |-> FALSE, success |-> FALSE, response |-> "",
            processing_time_ms |-> 0]
      [] OTHER ->
           [rejected |-> TRUE, success |-> FALSE, response |-> "",
            processing_time_ms |-> 0]

\* variant: the customSessionId argument is ignored
sendMessageIgnoresCustom(msg, customSessionId, sid) ==
    [method |-> "POST", endpoint |-> "/chat", message |-> msg,
     session_id |-> sid,
     given |-> msg, custom |-> customSessionId, epoch |-> resets,
     load |-> loads]

\* sendMessage: the request handed to makeRequest. given, custom, epoch and
\* load are not part of the body: they record the two arguments, and the
\* number of resetSession calls and page loads that preceded the request.
sendMessage(msg, customSessionId, sid) ==
    [method |-> "POST", endpoint |-> "/chat", message |-> msg,
     session_id |-> IF Truthy(customSessionId) THEN customSessionId ELSE sid,
     given |-> msg, custom |-> customSessionId, epoch |-> resets,
     load |-> loads]

\* deleteSession: the request handed to makeRequest
deleteSession(id, sid) ==
    [method |-> "DELETE", endpoint |-> "/sessions/", message |-> <<>>,
     session_id |-> IF Truthy(id) THEN id ELSE sid,
     given |-> <<>>, custom |-> id, epoch |-> resets, load |-> loads]

\* the message argument of a direct call of sendMessage
ApiMessages == {<<"a">>}

ChatRequests == {i \in 1..Len(requests) : requests[i].endpoint = "/chat"}

\* page load: the module-level singleton cementOSAPI is constructed
PageLoad ==
    /\ loads < MaxLoads
    /\ \E gen \in SessionIds :
         LET r == getSessionId(storage, gen) IN
           /\ sessionId' = r.sessionId
           /\ storage' = r.storage
    /\ loads' = loads + 1
    /\ UNCHANGED <<requests, resets>>
    /\ UNCHANGED <<fetchVars, chatVars, profileVars, statusVars, demoVars>>
    /\ UNCHANGED pagesVars

ApiSendMessage ==
    /\ loads > 0
    /\ Len(requests) < MaxApiCalls
    /\ \E m \in ApiMessages, c \in {NoId, ""} \cup CustomIds :
         requests' = Append(requests, sendMessage(m, c, sessionId))
    /\ UNCHANGED <<sessionId, storage, resets, loads>>
    /\ UNCHANGED <<fetchVars, chatVars, profileVars, statusVars, demoVars>>
    /\ UNCHANGED pagesVars

\* variant: deleting the current session also starts a new one
ApiDeleteSessionStartsNew ==
    /\ loads > 0
    /\ Len(requests) < MaxApiCalls
    /\ \E id \in {NoId} \cup CustomIds :
         /\ requests' = Append(requests, deleteSession(id, sessionId))
         /\ IF Truthy(id)
            THEN UNCHANGED <<sessionId, storage>>
            ELSE \E gen \in SessionIds : sessionId' = gen /\ storage' = gen
    /\ UNCHANGED <<resets, loads>>
    /\ UNCHANGED <<fetchVars, chatVars, profileVars, statusVars, demoVars>>
    /\ UNCHANGED pagesVars

ApiDeleteSession ==
    /\ loads > 0
    /\ Len(requests) < MaxApiCalls
    /\ \E id \in {NoId} \cup CustomIds :
         requests' = Append(requests, deleteSession(id, sessionId))
    /\ UNCHANGED <<sessionId, storage, resets, loads>>
    /\ UNCHANGED <<fetchVars, chatVars, profileVars, statusVars, demoVars>>
    /\ UNCHANGED pagesVars

\* variant: the new id is not written to local storage
resetSessionMemoryOnly ==
    /\ loads > 0
    /\ resets < MaxResets
    /\ \E gen \in SessionIds : sessionId' = gen
    /\ resets' = resets + 1
    /\ UNCHANGED <<storage, requests, loads>>
    /\ UNCHANGED <<fetchVars, chatVars, profileVars, statusVars, demoVars>>
    /\ UNCHANGED pagesVars

resetSession ==
    /\ loads > 0
    /\ resets < MaxResets
    /\ \E gen \in SessionIds :
         /\ sessionId' = gen
         /\ storage' = gen
    /\ resets' = resets + 1
    /\ UNCHANGED <<requests, loads>>
    /\ UNCHANGED <<fetchVars, chatVars, profileVars, statusVars, demoVars>>
    /\ UNCHANGED pagesVars

\* the requests whose promise has settled
Settled == {settlements[k].request : k \in 1..Len(settlements)}

\* the promise of request i settles: fetch and response.json() had the
\* given outcome, result is what makeRequest resolved or rejected with
ApiRequestSettles ==
    /\ \E i \in 1..Len(requests), outcome \in FetchOutcomes :
         /\ i \notin Settled
         /\ settlements' = Append(settlements,
              [request |-> i, outcome |-> outcome,
               result |-> makeRequest(outcome)])
    /\ UNCHANGED apiVars
    /\ UNCHANGED <<chatVars, profileVars, statusVars, demoVars>>
    /\ UNCHANGED pagesVars

(***************************************************************************)
(* components/FloatingChatbot.tsx                                          *)
(***************************************************************************)
\* texts the user can have in the input box, as sequences of characters
Messages == {<<>>, <<" ">>, <<" ", "a">>}
\* action.substring(2) of a quick-action label whose emoji takes two code
\* units: the text of the label, led by the space that followed the emoji
QuickActionTexts == {<<" ", "a">>}

RECURSIVE trimStart(_)
trimStart(s) ==
    IF s # <<>> /\ Head(s) = " " THEN trimStart(Tail(s)) ELSE s

RECURSIVE trimEnd(_)
trimEnd(s) ==
    IF s # <<>> /\ s[Len(s)] = " " THEN trimEnd(SubSeq(s, 1, Len(s) - 1)) ELSE s

\* String.prototype.trim
trim(s) == trimEnd(trimStart(s))

NoToast == [title |-> "", variant |-> ""]
ConnectionIssueToast == [title |-> "API Connection Issue", variant |-> "destructive"]
ChatErrorToast == [title |-> "Chat Error", variant |-> "destructive"]

Undefined == -1                       \* an absent processingTime

greeting ==
    [type |-> "bot",
     message |-> <<"Hello! I'm CementOS AI Assistant. I can help you with plant operations, optimization, troubleshooting, and performance analysis. How can I assist you today?">>,
     processingTime |-> Undefined, isError |-> FALSE]

\* the fixed list of simulated responses of the offline branch
responses == <<
    "Based on current data, I recommend increasing alternative fuel usage by 5% to reduce CO2 emissions.",
    "Your energy efficiency is at 87.5%. I can help optimize thermal settings to reach 90%.",
    "I notice temperature fluctuations in the kiln. Would you like me to analyze the thermal patterns?",
    "Quality parameters look good. The recent C3S content adjustment is showing positive results.",
    "I can run a full plant optimization if you'd like. This typically improves efficiency by 3-5%.",
    "Your NOx emissions are within limits. Alternative fuel ratio is performing well at current levels.",
    "I've detected an opportunity to reduce energy consumption by optimizing mill operations. Shall I proceed?" >>

userMessage(m) ==
    [type |-> "user", message |-> m, processingTime |-> Undefined,
     isError |-> FALSE]

\* aiMessage of the connected branch
apiMessage(response) ==
    [type |-> "bot", message |-> <<response.response>>,
     processingTime |-> response.processing_time_ms, isError |-> FALSE]

\* aiMessage of the offline branch; i is Math.floor(Math.random() * 7) + 1
offlineMessage(i) ==
    [type |-> "bot", message |-> <<"[OFFLINE MODE] ", responses[i]>>,
     processingTime |-> Undefined, isError |-> FALSE]

errorMessage ==
    [type |-> "bot",
     message |-> <<"I apologize, but I'm experiencing technical difficulties. Please try again in a moment, or contact support if the issue persists.">>,
     processingTime |-> Undefined, isError |-> TRUE]

\* checkAPIConnection up to its await: one more GET /health in flight
StartHealthCheck ==
    /\ healthInFlight' = healthInFlight + 1
    /\ healthStarted' = healthStarted + 1

\* useEffect(() => { checkAPIConnection(); }, [])
ChatMount ==
    /\ loads > 0
    /\ ~chatMounted
    /\ chatMounted' = TRUE
    /\ StartHealthCheck
    /\ UNCHANGED <<message, isLoading, isConnected, chatHistory, exchanges,
                   retryClicks, lastHealth, chatToast, apiVars>>
    /\ UNCHANGED <<fetchVars, profileVars, statusVars, demoVars>>
    /\ UNCHANGED pagesVars

\* the retry-connection button: onClick={checkAPIConnection}
RetryConnection ==
    /\ chatMounted
    /\ retryClicks < MaxRetries
    /\ retryClicks' = retryClicks + 1
    /\ StartHealthCheck
    /\ UNCHANGED <<chatMounted, message, isLoading, isConnected, chatHistory,
                   exchanges, lastHealth, chatToast, apiVars>>
    /\ UNCHANGED <<fetchVars, profileVars, statusVars, demoVars>>
    /\ UNCHANGED pagesVars

HealthFailed(outcome) ==
    outcome \in {"http_error", "network_error", "invalid_json"}

\* variant: the catch branch forgets setIsConnected(false)
checkAPIConnectionKeepsFlag(outcome) ==
    IF makeRequest(outcome).rejected
    THEN /\ UNCHANGED isConnected
         /\ chatToast' = ConnectionIssueToast
    ELSE /\ isConnected' = TRUE
         /\ UNCHANGED chatToast

\* variant: the try branch forgets setIsConnected(true)
checkAPIConnectionNeverLive(outcome) ==
    IF makeRequest(outcome).rejected
    THEN /\ isConnected' = FALSE
         /\ chatToast' = ConnectionIssueToast
    ELSE UNCHANGED <<isConnected, chatToast>>

\* checkAPIConnection after its await: healthCheck() resolved or rejected
checkAPIConnection(outcome) ==
    IF makeRequest(outcome).rejected
    THEN /\ isConnected' = FALSE
         /\ chatToast' = ConnectionIssueToast
    ELSE /\ isConnected' = TRUE
         /\ UNCHANGED chatToast

HealthCheckSettles ==
    /\ healthInFlight > 0
    /\ \E outcome \in FetchOutcomes :
         /\ checkAPIConnection(outcome)
         /\ lastHealth' = IF HealthFailed(outcome) THEN "failed" ELSE "ok"
    /\ healthInFlight' = healthInFlight - 1
    /\ UNCHANGED <<chatMounted, message, isLoading, chatHistory, exchanges,
                   healthStarted, retryClicks, apiVars>>
    /\ UNCHANGED <<fetchVars, profileVars, statusVars, demoVars>>
    /\ UNCHANGED pagesVars

\* onChange of the input, which is disabled while isLoading
SetMessage ==
    /\ chatMounted
    /\ ~isLoading
    /\ \E m \in Messages : m # message /\ message' = m
    /\ UNCHANGED <<chatMounted, isLoading, isConnected, chatHistory, exchanges,
                   healthInFlight, healthStarted, retryClicks, lastHealth,
                   chatToast, apiVars>>
    /\ UNCHANGED <<fetchVars, profileVars, statusVars, demoVars>>
    /\ UNCHANGED pagesVars

\* a quick-action button: setMessage(action.substring(2))
QuickAction ==
    /\ chatMounted
    /\ \E m \in QuickActionTexts : m # message /\ message' = m
    /\ UNCHANGED <<chatMounted, isLoading, isConnected, chatHistory, exchanges,
                   healthInFlight, healthStarted, retryClicks, lastHealth,
                   chatToast, apiVars>>
    /\ UNCHANGED <<fetchVars, profileVars, statusVars, demoVars>>
    /\ UNCHANGED pagesVars

\* variant: setIsLoading(true) is forgotten
handleSendForgetsLoading ==
    IF trim(message) = <<>> \/ isLoading
    THEN UNCHANGED <<message, isLoading, chatHistory, exchanges, requests>>
    ELSE /\ Len(exchanges) < MaxSends
         /\ chatHistory' = Append(chatHistory, userMessage(message))
         /\ UNCHANGED isLoading
         /\ message' = <<>>
         /\ IF isConnected
            THEN /\ requests' =
                      Append(requests, sendMessage(message, NoId, sessionId))
                 /\ exchanges' = Append(exchanges,
                      [kind |-> "post", connected |-> isConnected,
                       settled |-> FALSE, outcome |-> "none",
                       user |-> Len(chatHistory) + 1])
            ELSE /\ UNCHANGED requests
                 /\ exchanges' = Append(exchanges,
                      [kind |-> "timer", connected |-> isConnected,
                       settled |-> FALSE, outcome |-> "none",
                       user |-> Len(chatHistory) + 1])

\* handleSend up to its await. An exchange records the branch taken
\* (kind), isConnected when the send was accepted, the position of its user
\* message in chatHistory and, once settled, the outcome of its request.
handleSend ==
    IF trim(message) = <<>> \/ isLoading
    THEN UNCHANGED <<message, isLoading, chatHistory, exchanges, requests>>
    ELSE /\ Len(exchanges) < MaxSends
         /\ chatHistory' = Append(chatHistory, userMessage(message))
         /\ isLoading' = TRUE
         /\ message' = <<>>
         /\ IF isConnected
            THEN /\ requests' =
                      Append(requests, sendMessage(message, NoId, sessionId))
                 /\ exchanges' = Append(exchanges,
                      [kind |-> "post", connected |-> isConnected,
                       settled |-> FALSE, outcome |-> "none",
                       user |-> Len(chatHistory) + 1])
            ELSE /\ UNCHANGED requests
                 /\ exchanges' = Append(exchanges,
                      [kind |-> "timer", connected |-> isConnected,
                       settled |-> FALSE, outcome |-> "none",
                       user |-> Len(chatHistory) + 1])

\* the send button, disabled={isLoading || !message.trim()}
ClickSend ==
    /\ chatMounted
    /\ ~(isLoading \/ trim(message) = <<>>)
    /\ handleSend
    /\ UNCHANGED <<chatMounted, isConnected, healthInFlight, healthStarted,
                   retryClicks, lastHealth, chatToast, sessionId, storage,
                   resets, loads>>
    /\ UNCHANGED <<fetchVars, profileVars, statusVars, demoVars>>
    /\ UNCHANGED pagesVars

\* onKeyPress: e.key === 'Enter' && !isLoading && handleSend()
PressEnter ==
    /\ chatMounted
    /\ ~isLoading
    /\ handleSend
    /\ UNCHANGED <<chatMounted, isConnected, healthInFlight, healthStarted,
                   retryClicks, lastHealth, chatToast, sessionId, storage,
                   resets, loads>>
    /\ UNCHANGED <<fetchVars, profileVars, statusVars, demoVars>>
    /\ UNCHANGED pagesVars

\* variant: the catch branch answers from the offline list
chatResponseOfflineFallback(k, outcome) ==
    LET response == makeRequest(outcome) IN
      /\ IF ~response.rejected /\ response.success
         THEN /\ chatHistory' = Append(chatHistory, apiMessage(response))
              /\ UNCHANGED chatToast
         ELSE /\ chatHistory' = Append(chatHistory, offlineMessage(1))
              /\ chatToast' = ChatErrorToast
      /\ isLoading' = FALSE
      /\ exchanges' = [exchanges EXCEPT ![k].settled = TRUE,
                                        ![k].outcome = outcome]
      /\ UNCHANGED <<requests, isConnected>>

\* variant: the catch branch also calls setIsConnected(false)
chatResponseMarksOffline(k, outcome) ==
    LET response == makeRequest(outcome) IN
      /\ IF ~response.rejected /\ response.success
         THEN /\ chatHistory' = Append(chatHistory, apiMessage(response))
              /\ UNCHANGED <<chatToast, isConnected>>
         ELSE /\ chatHistory' = Append(chatHistory, errorMessage)
              /\ chatToast' = ChatErrorToast
              /\ isConnected' = FALSE
      /\ isLoading' = FALSE
      /\ exchanges' = [exchanges EXCEPT ![k].settled = TRUE,
                                        ![k].outcome = outcome]
      /\ UNCHANGED requests

\* variant: a rejected request is sent once more before giving up
chatResponseRetries(k, outcome) ==
    LET response == makeRequest(outcome) IN
      /\ IF ~response.rejected /\ response.success
         THEN /\ chatHistory' = Append(chatHistory, apiMessage(response))
              /\ UNCHANGED <<chatToast, requests>>
         ELSE /\ chatHistory' = Append(chatHistory, errorMessage)
              /\ chatToast' = ChatErrorToast
              /\ requests' = Append(requests, requests[Len(requests)])
      /\ isLoading' = FALSE
      /\ exchanges' = [exchanges EXCEPT ![k].settled = TRUE,
                                        ![k].outcome = outcome]
      /\ UNCHANGED isConnected

\* variant: the catch branch shows the toast and appends no message
chatResponseSilentFailure(k, outcome) ==
    LET response == makeRequest(outcome) IN
      /\ IF ~response.rejected /\ response.success
         THEN /\ chatHistory' = Append(chatHistory, apiMessage(response))
              /\ UNCHANGED chatToast
         ELSE /\ UNCHANGED chatHistory
              /\ chatToast' = ChatErrorToast
      /\ isLoading' = FALSE
      /\ exchanges' = [exchanges EXCEPT ![k].settled = TRUE,
                                        ![k].outcome = outcome]
      /\ UNCHANGED <<requests, isConnected>>

\* handleSend after await cementOSAPI.sendMessage(...): try, catch, finally
chatResponse(k, outcome) ==
    LET response == makeRequest(outcome) IN
      /\ IF ~response.rejected /\ response.success
         THEN /\ chatHistory' = Append(chatHistory, apiMessage(response))
              /\ UNCHANGED chatToast
         ELSE /\ chatHistory' = Append(chatHistory, errorMessage)
              /\ chatToast' = ChatErrorToast
      /\ isLoading' = FALSE
      /\ exchanges' = [exchanges EXCEPT ![k].settled = TRUE,
                                        ![k].outcome = outcome]
      /\ UNCHANGED <<requests, isConnected>>

ChatResponseArrives ==
    /\ \E k \in 1..Len(exchanges), outcome \in FetchOutcomes :
         /\ exchanges[k].kind = "post"
         /\ ~exchanges[k].settled
         /\ chatResponse(k, outcome)
    /\ UNCHANGED <<chatMounted, message, healthInFlight, healthStarted,
                   retryClicks, lastHealth, sessionId, storage, resets, loads>>
    /\ UNCHANGED <<fetchVars, profileVars, statusVars, demoVars>>
    /\ UNCHANGED pagesVars

\* variant: setIsLoading(false) sits in the connected branch, not in finally
offlineReplyKeepsLoading(k, i) ==
    /\ chatHistory' = Append(chatHistory, offlineMessage(i))
    /\ UNCHANGED isLoading
    /\ exchanges' = [exchanges EXCEPT ![k].settled = TRUE,
                                      ![k].outcome = "timer"]

\* handleSend after await new Promise(resolve => setTimeout(resolve, 1000))
offlineReply(k, i) ==
    /\ chatHistory' = Append(chatHistory, offlineMessage(i))
    /\ isLoading' = FALSE
    /\ exchanges' = [exchanges EXCEPT ![k].settled = TRUE,
                                      ![k].outcome = "timer"]

OfflineTimerFires ==
    /\ \E k \in 1..Len(exchanges), i \in 1..Len(responses) :
         /\ exchanges[k].kind = "timer"
         /\ ~exchanges[k].settled
         /\ offlineReply(k, i)
    /\ UNCHANGED <<chatMounted, message, isConnected, healthInFlight,
                   healthStarted, retryClicks, lastHealth, chatToast, apiVars>>
    /\ UNCHANGED <<fetchVars, profileVars, statusVars, demoVars>>
    /\ UNCHANGED pagesVars

\* the first load of the page
FirstPageLoad ==
    /\ loads = 0
    /\ PageLoad

NextChat ==
    \/ FirstPageLoad
    \/ ChatMount
    \/ RetryConnection
    \/ HealthCheckSettles
    \/ SetMessage
    \/ QuickAction
    \/ ClickSend
    \/ PressEnter
    \/ ChatResponseArrives
    \/ OfflineTimerFires

(***************************************************************************)
(* components/modals/ProfileModal.tsx: the Team tab                        *)
(***************************************************************************)
managementTeam == <<
    [name |-> "Rajesh Kumar", role |-> "Plant Manager",
     email |-> "rajesh.k@plant.com", phone |-> "+91-9876543210",
     experience |-> "15 years", department |-> "Operations"],
    [name |-> "Priya Sharma", role |-> "Operations Head",
     email |-> "priya.s@plant.com", phone |-> "+91-9876543211",
     experience |-> "12 years", department |-> "Production"],
    [name |-> "Amit Singh", role |-> "Maintenance Chief",
     email |-> "amit.s@plant.com", phone |-> "+91-9876543212",
     experience |-> "18 years", department |-> "Maintenance"],
    [name |-> "Neha Gupta", role |-> "Quality Controller",
     email |-> "neha.g@plant.com", phone |-> "+91-9876543213",
     experience |-> "10 years", department |-> "Quality"] >>

emptyMember ==
    [name |-> "", role |-> "", email |-> "", phone |-> "",
     experience |-> "", department |-> ""]

plantData ==
    [name |-> "Delhi Manufacturing Unit", capacity |-> "5,000 tonnes/day",
     established |-> "1987", location |-> "Sector 45, Gurgaon, Haryana",
     license |-> "ENV-2024-DL-445", coordinates |-> "28.4595 N, 77.0266 E"]

\* the module-level array literal; evaluating it creates four objects
operationalMetrics == <<
    [metric |-> "Production (MTD)", value |-> "127,450 tons",
     target |-> "130,000 tons", percentage |-> 98, status |-> "warning"],
    [metric |-> "Energy Efficiency", value |-> "87.5%",
     target |-> "85%", percentage |-> 103, status |-> "success"],
    [metric |-> "Quality Score", value |-> "94.2%",
     target |-> "92%", percentage |-> 102, status |-> "success"],
    [metric |-> "Safety Days", value |-> "156 days",
     target |-> "365 days", percentage |-> 43, status |-> "info"] >>

\* the array operationalMetrics as references to its objects
MetricRefs == [i \in 1..Len(operationalMetrics) |-> i]

initiatives == <<
    [name |-> "Alternative Fuel Project", current |-> "47%", target |-> "60%",
     deadline |-> "Q4 2024", status |-> "in-progress",
     description |-> "Increase alternative fuel usage to reduce carbon footprint"],
    [name |-> "Digital Twin Implementation", current |-> "Phase 2",
     target |-> "Phase 3", deadline |-> "Q1 2025", status |-> "on-track",
     description |-> "Complete digital twin integration for predictive maintenance"],
    [name |-> "ISO 50001 Certification", current |-> "Under Audit",
     target |-> "Certified", deadline |-> "Q2 2024", status |-> "pending",
     description |-> "Energy management system certification"] >>

certifications == <<
    [name |-> "ISO 9001:2015", type |-> "Quality Management",
     status |-> "active", expiry |-> "Dec 2025", issuer |-> "Bureau Veritas"],
    [name |-> "ISO 14001:2015", type |-> "Environmental Management",
     status |-> "active", expiry |-> "Oct 2025", issuer |-> "TUV SUD"],
    [name |-> "OHSAS 45001:2018", type |-> "Safety Management",
     status |-> "active", expiry |-> "Jan 2026", issuer |-> "SGS"],
    [name |-> "ISO 50001:2018", type |-> "Energy Management",
     status |-> "in-progress", expiry |-> "Pending", issuer |-> "DNV GL"] >>

emptyProject ==
    [name |-> "", current |-> "", target |-> "", deadline |-> "",
     status |-> "pending", description |-> ""]

emptyCert ==
    [name |-> "", type |-> "", status |-> "in-progress", expiry |-> "",
     issuer |-> ""]

MemberFields == {"name", "role", "email", "phone", "experience", "department"}
\* what the user types into a field of the add form
FieldInputs(f) ==
    IF f \in {"experience", "department"} THEN {""} ELSE {"", "x"}

MissingInformationToast ==
    [title |-> "Missing Information", variant |-> "destructive"]
MemberAddedToast == [title |-> "Team Member Added", variant |-> "default"]
MemberRemovedToast(memberName) ==
    [title |-> "Team Member Removed", variant |-> "default",
     description |-> memberName]

\* variant: filter((_, i) => i !== index + 1)
RemoveAfter(seq, index) ==
    IF index = Len(seq) THEN seq
    ELSE [i \in 1..(Len(seq) - 1) |-> IF i <= index THEN seq[i] ELSE seq[i + 1]]

\* JavaScript array filter((_, i) => i !== index), index counted from 1
RemoveAt(seq, index) ==
    [i \in 1..(Len(seq) - 1) |-> IF i < index THEN seq[i] ELSE seq[i + 1]]

\* the Add Member button of the header: setIsAddingMember(true)
OpenAddMember ==
    /\ profileMounted
    /\ ~isAddingMember
    /\ isAddingMember' = TRUE
    /\ UNCHANGED <<teamMembers, newMember, profileToast>>
    /\ UNCHANGED <<profileMounted, profileMounts, plantVars, metricVars,
                   projectVars, certVars>>
    /\ UNCHANGED <<apiVars, fetchVars, chatVars, statusVars, demoVars>>
    /\ UNCHANGED pagesVars

\* Cancel of the add form: setIsAddingMember(false)
CancelAddMember ==
    /\ profileMounted
    /\ isAddingMember
    /\ isAddingMember' = FALSE
    /\ UNCHANGED <<teamMembers, newMember, profileToast>>
    /\ UNCHANGED <<profileMounted, profileMounts, plantVars, metricVars,
                   projectVars, certVars>>
    /\ UNCHANGED <<apiVars, fetchVars, chatVars, statusVars, demoVars>>
    /\ UNCHANGED pagesVars

\* onChange of a field of the add form: setNewMember({...newMember, f: v})
SetNewMember ==
    /\ profileMounted
    /\ isAddingMember
    /\ \E f \in MemberFields : \E v \in FieldInputs(f) :
         /\ newMember[f] # v
         /\ newMember' = [newMember EXCEPT ![f] = v]
    /\ UNCHANGED <<teamMembers, isAddingMember, profileToast>>
    /\ UNCHANGED <<profileMounted, profileMounts, plantVars, metricVars,
                   projectVars, certVars>>
    /\ UNCHANGED <<apiVars, fetchVars, chatVars, statusVars, demoVars>>
    /\ UNCHANGED pagesVars

\* members of the list that were added through the form
Added ==
    Cardinality({i \in 1..Len(teamMembers) :
                   \A j \in 1..Len(managementTeam) :
                       teamMembers[i] # managementTeam[j]})

\* variant: only the name is required
handleAddMemberNameOnly ==
    IF newMember.name # ""
    THEN /\ Added < MaxAdds
         /\ teamMembers' = Append(teamMembers, newMember)
         /\ newMember' = emptyMember
         /\ isAddingMember' = FALSE
         /\ profileToast' = MemberAddedToast
    ELSE /\ profileToast' = MissingInformationToast
         /\ UNCHANGED <<teamMembers, newMember, isAddingMember>>

\* variant: the new member is put in front of the list
handleAddMemberInFront ==
    IF newMember.name # "" /\ newMember.role # "" /\ newMember.email # ""
    THEN /\ Added < MaxAdds
         /\ teamMembers' = <<newMember>> \o teamMembers
         /\ newMember' = emptyMember
         /\ isAddingMember' = FALSE
         /\ profileToast' = MemberAddedToast
    ELSE /\ profileToast' = MissingInformationToast
         /\ UNCHANGED <<teamMembers, newMember, isAddingMember>>

handleAddMember ==
    IF newMember.name # "" /\ newMember.role # "" /\ newMember.email # ""
    THEN /\ Added < MaxAdds
         /\ teamMembers' = Append(teamMembers, newMember)
         /\ newMember' = emptyMember
         /\ isAddingMember' = FALSE
         /\ profileToast' = MemberAddedToast
    ELSE /\ profileToast' = MissingInformationToast
         /\ UNCHANGED <<teamMembers, newMember, isAddingMember>>

\* the Add Member button of the add form, rendered while isAddingMember
ClickAddMember ==
    /\ profileMounted
    /\ isAddingMember
    /\ handleAddMember
    /\ UNCHANGED <<profileMounted, profileMounts, plantVars, metricVars,
                   projectVars, certVars>>
    /\ UNCHANGED <<apiVars, fetchVars, chatVars, statusVars, demoVars>>
    /\ UNCHANGED pagesVars

handleDeleteMember(index) ==
    LET memberName == teamMembers[index].name IN
    /\ teamMembers' = RemoveAt(teamMembers, index)
    /\ profileToast' = MemberRemovedToast(memberName)
    /\ UNCHANGED <<newMember, isAddingMember>>

\* the trash button of the card of teamMembers[index]
ClickDeleteMember ==
    /\ profileMounted
    /\ Len(teamMembers) > Len(managementTeam) - MaxDeletes
    /\ \E index \in 1..Len(teamMembers) : handleDeleteMember(index)
    /\ UNCHANGED <<profileMounted, profileMounts, plantVars, metricVars,
                   projectVars, certVars>>
    /\ UNCHANGED <<apiVars, fetchVars, chatVars, statusVars, demoVars>>
    /\ UNCHANGED pagesVars

(***************************************************************************)
(* ProfileModal.tsx: mounting, and the Overview and Metrics tabs           *)
(***************************************************************************)
ProfileUpdatedToast == [title |-> "Profile Updated", variant |-> "default"]
\* what the user types into a field of plant info or into a metric target
PlantInputs == {"x"}
TargetInputs == {"x"}

\* the metrics as rendered: metrics.map(metric => ...)
RenderedMetrics == [i \in 1..Len(metrics) |-> metricObjects[metrics[i]]]

\* a new instance of ProfileModal: every useState takes its initial value;
\* useState(operationalMetrics) takes the module-level array as it is now
ProfileMount ==
    /\ ~profileMounted
    /\ profileMounts < MaxProfileMounts
    /\ profileMounted' = TRUE
    /\ profileMounts' = profileMounts + 1
    /\ isEditing' = FALSE
    /\ plantInfo' = plantData
    /\ plantInfoAtEdit' = plantData
    /\ teamMembers' = managementTeam
    /\ isAddingMember' = FALSE
    /\ newMember' = emptyMember
    /\ metrics' = MetricRefs
    /\ isEditingMetrics' = FALSE
    /\ projects' = initiatives
    /\ isAddingProject' = FALSE
    /\ newProject' = emptyProject
    /\ compliance' = certifications
    /\ isAddingCert' = FALSE
    /\ newCert' = emptyCert
    /\ UNCHANGED <<metricObjects, profileToast>>
    /\ UNCHANGED <<apiVars, fetchVars, chatVars, statusVars, demoVars>>
    /\ UNCHANGED pagesVars

\* the instance is unmounted: its state is dropped, the module stays loaded
ProfileUnmount ==
    /\ profileMounted
    /\ profileMounted' = FALSE
    /\ UNCHANGED <<teamVars, profileToast, profileMounts, plantVars,
                   metricVars, projectVars, certVars>>
    /\ UNCHANGED <<apiVars, fetchVars, chatVars, statusVars, demoVars>>
    /\ UNCHANGED pagesVars

\* Edit Info / Edit Profile: setIsEditing(true)
EditProfile ==
    /\ profileMounted
    /\ ~isEditing
    /\ isEditing' = TRUE
    /\ plantInfoAtEdit' = plantInfo
    /\ UNCHANGED <<teamVars, profileToast, profileMounted, profileMounts,
                   plantInfo, metricVars, projectVars, certVars>>
    /\ UNCHANGED <<apiVars, fetchVars, chatVars, statusVars, demoVars>>
    /\ UNCHANGED pagesVars

\* onChange of a plant-info input: setPlantInfo({...plantInfo, f: v})
SetPlantInfo ==
    /\ profileMounted
    /\ isEditing
    /\ \E f \in {"name", "capacity", "established", "location", "license"} :
       \E v \in PlantInputs :
         /\ plantInfo[f] # v
         /\ plantInfo' = [plantInfo EXCEPT ![f] = v]
    /\ UNCHANGED <<teamVars, profileToast, profileMounted, profileMounts,
                   isEditing, plantInfoAtEdit, metricVars, projectVars,
                   certVars>>
    /\ UNCHANGED <<apiVars, fetchVars, chatVars, statusVars, demoVars>>
    /\ UNCHANGED pagesVars

handleSaveProfile ==
    /\ isEditing' = FALSE
    /\ profileToast' = ProfileUpdatedToast
    /\ UNCHANGED <<plantInfo, plantInfoAtEdit>>

\* the Save Changes button, rendered while isEditing
ClickSaveProfile ==
    /\ profileMounted
    /\ isEditing
    /\ handleSaveProfile
    /\ UNCHANGED <<teamVars, profileMounted, profileMounts, metricVars,
                   projectVars, certVars>>
    /\ UNCHANGED <<apiVars, fetchVars, chatVars, statusVars, demoVars>>
    /\ UNCHANGED pagesVars

\* Cancel of plant info: setIsEditing(false); setPlantInfo(plantData)
CancelEditProfile ==
    /\ profileMounted
    /\ isEditing
    /\ isEditing' = FALSE
    /\ plantInfo' = plantData
    /\ UNCHANGED <<teamVars, profileToast, profileMounted, profileMounts,
                   plantInfoAtEdit, metricVars, projectVars, certVars>>
    /\ UNCHANGED <<apiVars, fetchVars, chatVars, statusVars, demoVars>>
    /\ UNCHANGED pagesVars

\* Edit Targets / Save Targets: setIsEditingMetrics(!isEditingMetrics)
ToggleEditMetrics ==
    /\ profileMounted
    /\ isEditingMetrics' = ~isEditingMetrics
    /\ UNCHANGED <<teamVars, profileToast, profileMounted, profileMounts,
                   plantVars, metricObjects, metrics, projectVars, certVars>>
    /\ UNCHANGED <<apiVars, fetchVars, chatVars, statusVars, demoVars>>
    /\ UNCHANGED pagesVars

\* onChange of a target input: newMetrics = [...metrics] copies the
\* references, newMetrics[index].target = v writes into the object that
\* metrics[index] and operationalMetrics[index] also refer to
metricTargetOnChange(index, v) ==
    LET newMetrics == metrics IN
      /\ metricObjects' = [metricObjects EXCEPT ![newMetrics[index]].target = v]
      /\ metrics' = newMetrics

SetMetricTarget ==
    /\ profileMounted
    /\ isEditingMetrics
    /\ \E index \in 1..Len(metrics), v \in TargetInputs :
         /\ RenderedMetrics[index].target # v
         /\ metricTargetOnChange(index, v)
    /\ UNCHANGED <<teamVars, profileToast, profileMounted, profileMounts,
                   plantVars, isEditingMetrics, projectVars, certVars>>
    /\ UNCHANGED <<apiVars, fetchVars, chatVars, statusVars, demoVars>>
    /\ UNCHANGED pagesVars

(***************************************************************************)
(* ProfileModal.tsx: the Initiatives and Compliance tabs                   *)
(***************************************************************************)
ProjectAddedToast == [title |-> "Project Added", variant |-> "default"]
ProjectRemovedToast(projectName) ==
    [title |-> "Project Removed", variant |-> "default",
     description |-> projectName]
CertificationAddedToast ==
    [title |-> "Certification Added", variant |-> "default"]
CertificationRemovedToast(certName) ==
    [title |-> "Certification Removed", variant |-> "default",
     description |-> certName]

\* the inputs of the two add forms and what the user types into them
ProjectFields == {"name", "target", "current", "deadline", "description"}
ProjectInputs(f) == IF f = "description" THEN {""} ELSE {"", "x"}
CertFields == {"name", "type", "issuer", "expiry"}
CertInputs(f) == {"", "x"}

\* the Add Project button of the header: setIsAddingProject(true)
OpenAddProject ==
    /\ profileMounted
    /\ ~isAddingProject
    /\ isAddingProject' = TRUE
    /\ UNCHANGED <<teamVars, profileToast, profileMounted, profileMounts,
                   plantVars, metricVars, projects, newProject, certVars>>
    /\ UNCHANGED <<apiVars, fetchVars, chatVars, statusVars, demoVars>>
    /\ UNCHANGED pagesVars

\* Cancel of the project form: setIsAddingProject(false)
CancelAddProject ==
    /\ profileMounted
    /\ isAddingProject
    /\ isAddingProject' = FALSE
    /\ UNCHANGED <<teamVars, profileToast, profileMounted, profileMounts,
                   plantVars, metricVars, projects, newProject, certVars>>
    /\ UNCHANGED <<apiVars, fetchVars, chatVars, statusVars, demoVars>>
    /\ UNCHANGED pagesVars

\* onChange of a field of the project form
SetNewProject ==
    /\ profileMounted
    /\ isAddingProject
    /\ \E f \in ProjectFields : \E v \in ProjectInputs(f) :
         /\ newProject[f] # v
         /\ newProject' = [newProject EXCEPT ![f] = v]
    /\ UNCHANGED <<teamVars, profileToast, profileMounted, profileMounts,
                   plantVars, metricVars, projects, isAddingProject, certVars>>
    /\ UNCHANGED <<apiVars, fetchVars, chatVars, statusVars, demoVars>>
    /\ UNCHANGED pagesVars

\* variant: the deadline is not required
handleAddProjectNoDeadline ==
    IF newProject.name # "" /\ newProject.target # ""
    THEN /\ Len(projects) < Len(initiatives) + MaxAdds
         /\ projects' = Append(projects, newProject)
         /\ newProject' = emptyProject
         /\ isAddingProject' = FALSE
         /\ profileToast' = ProjectAddedToast
    ELSE /\ profileToast' = MissingInformationToast
         /\ UNCHANGED <<projects, newProject, isAddingProject>>

handleAddProject ==
    IF newProject.name # "" /\ newProject.target # "" /\ newProject.deadline # ""
    THEN /\ Len(projects) < Len(initiatives) + MaxAdds
         /\ projects' = Append(projects, newProject)
         /\ newProject' = emptyProject
         /\ isAddingProject' = FALSE
         /\ profileToast' = ProjectAddedToast
    ELSE /\ profileToast' = MissingInformationToast
         /\ UNCHANGED <<projects, newProject, isAddingProject>>

\* the Add Project button of the form, rendered while isAddingProject
ClickAddProject ==
    /\ profileMounted
    /\ isAddingProject
    /\ handleAddProject
    /\ UNCHANGED <<teamVars, profileMounted, profileMounts, plantVars,
                   metricVars, certVars>>
    /\ UNCHANGED <<apiVars, fetchVars, chatVars, statusVars, demoVars>>
    /\ UNCHANGED pagesVars

handleDeleteProject(index) ==
    LET projectName == projects[index].name IN
    /\ projects' = RemoveAt(projects, index)
    /\ profileToast' = ProjectRemovedToast(projectName)
    /\ UNCHANGED <<newProject, isAddingProject>>

\* the trash button of the card of projects[index]
ClickDeleteProject ==
    /\ profileMounted
    /\ Len(projects) > Len(initiatives) - MaxDeletes
    /\ \E index \in 1..Len(projects) : handleDeleteProject(index)
    /\ UNCHANGED <<teamVars, profileMounted, profileMounts, plantVars,
                   metricVars, certVars>>
    /\ UNCHANGED <<apiVars, fetchVars, chatVars, statusVars, demoVars>>
    /\ UNCHANGED pagesVars

\* the Add Certification button of the header: setIsAddingCert(true)
OpenAddCert ==
    /\ profileMounted
    /\ ~isAddingCert
    /\ isAddingCert' = TRUE
    /\ UNCHANGED <<teamVars, profileToast, profileMounted, profileMounts,
                   plantVars, metricVars, projectVars, compliance, newCert>>
    /\ UNCHANGED <<apiVars, fetchVars, chatVars, statusVars, demoVars>>
    /\ UNCHANGED pagesVars

\* Cancel of the certification form: setIsAddingCert(false)
CancelAddCert ==
    /\ profileMounted
    /\ isAddingCert
    /\ isAddingCert' = FALSE
    /\ UNCHANGED <<teamVars, profileToast, profileMounted, profileMounts,
                   plantVars, metricVars, projectVars, compliance, newCert>>
    /\ UNCHANGED <<apiVars, fetchVars, chatVars, statusVars, demoVars>>
    /\ UNCHANGED pagesVars

\* onChange of a field of the certification form
SetNewCert ==
    /\ profileMounted
    /\ isAddingCert
    /\ \E f \in CertFields : \E v \in CertInputs(f) :
         /\ newCert[f] # v
         /\ newCert' = [newCert EXCEPT ![f] = v]
    /\ UNCHANGED <<teamVars, profileToast, profileMounted, profileMounts,
                   plantVars, metricVars, projectVars, compliance, isAddingCert>>
    /\ UNCHANGED <<apiVars, fetchVars, chatVars, statusVars, demoVars>>
    /\ UNCHANGED pagesVars

handleAddCertification ==
    IF newCert.name # "" /\ newCert.type # "" /\ newCert.issuer # ""
    THEN /\ Len(compliance) < Len(certifications) + MaxAdds
         /\ compliance' = Append(compliance, newCert)
         /\ newCert' = emptyCert
         /\ isAddingCert' = FALSE
         /\ profileToast' = CertificationAddedToast
    ELSE /\ profileToast' = MissingInformationToast
         /\ UNCHANGED <<compliance, newCert, isAddingCert>>

\* the Add Certification button of the form, rendered while isAddingCert
ClickAddCert ==
    /\ profileMounted
    /\ isAddingCert
    /\ handleAddCertification
    /\ UNCHANGED <<teamVars, profileMounted, profileMounts, plantVars,
                   metricVars, projectVars>>
    /\ UNCHANGED <<apiVars, fetchVars, chatVars, statusVars, demoVars>>
    /\ UNCHANGED pagesVars

handleDeleteCertification(index) ==
    LET certName == compliance[index].name IN
    /\ compliance' = RemoveAt(compliance, index)
    /\ profileToast' = CertificationRemovedToast(certName)
    /\ UNCHANGED <<newCert, isAddingCert>>

\* the trash button of the card of compliance[index]
ClickDeleteCert ==
    /\ profileMounted
    /\ Len(compliance) > Len(certifications) - MaxDeletes
    /\ \E index \in 1..Len(compliance) : handleDeleteCertification(index)
    /\ UNCHANGED <<teamVars, profileMounted, profileMounts, plantVars,
                   metricVars, projectVars>>
    /\ UNCHANGED <<apiVars, fetchVars, chatVars, statusVars, demoVars>>
    /\ UNCHANGED pagesVars

NextProfile ==
    \/ ProfileMount
    \/ OpenAddMember
    \/ CancelAddMember
    \/ SetNewMember
    \/ ClickAddMember
    \/ ClickDeleteMember

\* how far the state shown by the modal is from the literals: deleted
\* entries, changed plant-info fields and changed metric targets
EditCount ==
    (Len(managementTeam) - Len(teamMembers))
    + (Len(initiatives) - Len(projects))
    + (Len(certifications) - Len(compliance))
    + Cardinality({f \in DOMAIN plantData : plantInfo[f] # plantData[f]})
    + Cardinality({i \in 1..Len(metrics) :
                     RenderedMetrics[i].target # operationalMetrics[i].target})

\* the edits of a session of the modal, at most MaxEdits of them standing
EditPlantInfo == EditCount < MaxEdits /\ SetPlantInfo
EditMetricTarget == EditCount < MaxEdits /\ SetMetricTarget
DeleteMember == EditCount < MaxEdits /\ ClickDeleteMember
DeleteProject == EditCount < MaxEdits /\ ClickDeleteProject
DeleteCert == EditCount < MaxEdits /\ ClickDeleteCert

\* mounts and unmounts, and the edits of each entity
NextProfileLife ==
    \/ ProfileMount
    \/ ProfileUnmount
    \/ EditProfile
    \/ EditPlantInfo
    \/ ClickSaveProfile
    \/ CancelEditProfile
    \/ ToggleEditMetrics
    \/ EditMetricTarget
    \/ DeleteMember
    \/ DeleteProject
    \/ DeleteCert

\* the two add forms of the Initiatives and Compliance tabs
NextProfileForms ==
    \/ ProfileMount
    \/ OpenAddProject
    \/ CancelAddProject
    \/ SetNewProject
    \/ ClickAddProject
    \/ OpenAddCert
    \/ CancelAddCert
    \/ SetNewCert
    \/ ClickAddCert

(***************************************************************************)
(* components/dashboard/APIStatusIndicator.tsx                             *)
(***************************************************************************)
\* checkConnection up to its await, called for the instance inst; mounted
\* tells whether inst is the mounted instance: the setter of an unmounted
\* instance changes nothing
startCheck(inst, mounted) ==
    /\ statusIsChecking' = IF mounted THEN TRUE ELSE statusIsChecking
    /\ statusChecks' = Append(statusChecks,
         [inst |-> inst, state |-> "inflight", outcome |-> "none"])

\* mount: fresh state, then the effect runs checkConnection() and
\* setInterval(checkConnection, 30000)
StatusMount ==
    /\ ~statusMounted
    /\ statusInst < MaxMounts
    /\ Len(statusChecks) < MaxChecks
    /\ statusMounted' = TRUE
    /\ statusInst' = statusInst + 1
    /\ statusIsConnected' = "null"
    /\ lastChecked' = 0
    /\ startCheck(statusInst + 1, TRUE)
    /\ statusInterval' = statusInst + 1
    /\ UNCHANGED <<completedOrder, ticks, now>>
    /\ UNCHANGED <<apiVars, fetchVars, chatVars, profileVars, demoVars>>
    /\ UNCHANGED pagesVars

\* variant: the effect returns no cleanup
clearIntervalMissing == UNCHANGED statusInterval

\* the cleanup of the effect: clearInterval(interval)
clearInterval == statusInterval' = 0

StatusUnmount ==
    /\ statusMounted
    /\ statusMounted' = FALSE
    /\ clearInterval
    /\ UNCHANGED <<statusInst, statusIsConnected, statusIsChecking,
                   lastChecked, statusChecks, completedOrder, ticks, now>>
    /\ UNCHANGED <<apiVars, fetchVars, chatVars, profileVars, demoVars>>
    /\ UNCHANGED pagesVars

\* the 30 s interval fires: checkConnection()
StatusTick ==
    /\ statusInterval # 0
    /\ Len(statusChecks) < MaxChecks
    /\ ticks' = ticks + 1
    /\ startCheck(statusInterval, statusMounted /\ statusInterval = statusInst)
    /\ UNCHANGED <<statusMounted, statusInst, statusInterval,
                   statusIsConnected, lastChecked, completedOrder, now>>
    /\ UNCHANGED <<apiVars, fetchVars, chatVars, profileVars, demoVars>>
    /\ UNCHANGED pagesVars

\* the refresh button, disabled={isChecking}
StatusRefresh ==
    /\ statusMounted
    /\ ~statusIsChecking
    /\ Len(statusChecks) < MaxChecks
    /\ startCheck(statusInst, TRUE)
    /\ UNCHANGED <<statusMounted, statusInst, statusInterval,
                   statusIsConnected, lastChecked, completedOrder, ticks, now>>
    /\ UNCHANGED <<apiVars, fetchVars, chatVars, profileVars, demoVars>>
    /\ UNCHANGED pagesVars

\* variant: only the response of the check started last is applied
checkConnectionLatestOnly(c, outcome) ==
    IF c = Len(statusChecks)
    THEN /\ statusIsConnected' =
              IF makeRequest(outcome).rejected THEN "false" ELSE "true"
         /\ lastChecked' = now
         /\ statusIsChecking' = FALSE
    ELSE UNCHANGED <<statusIsConnected, lastChecked, statusIsChecking>>

\* variant: setIsChecking(false) is missing
checkConnectionKeepsChecking(c, outcome) ==
    /\ statusIsConnected' =
         IF makeRequest(outcome).rejected THEN "false" ELSE "true"
    /\ lastChecked' = now
    /\ UNCHANGED statusIsChecking

\* checkConnection after its await, for check c of a mounted instance
checkConnection(c, outcome) ==
    /\ statusIsConnected' =
         IF makeRequest(outcome).rejected THEN "false" ELSE "true"
    /\ lastChecked' = now
    /\ statusIsChecking' = FALSE

StatusCheckSettles ==
    /\ \E c \in 1..Len(statusChecks), outcome \in FetchOutcomes :
         /\ statusChecks[c].state = "inflight"
         /\ IF statusMounted /\ statusChecks[c].inst = statusInst
            THEN checkConnection(c, outcome)
            ELSE UNCHANGED <<statusIsConnected, lastChecked, statusIsChecking>>
         /\ statusChecks' = [statusChecks EXCEPT
               ![c].state = "done",
               ![c].outcome = IF HealthFailed(outcome) THEN "false" ELSE "true"]
         /\ completedOrder' = Append(completedOrder, c)
    /\ UNCHANGED <<statusMounted, statusInst, statusInterval, ticks, now>>
    /\ UNCHANGED <<apiVars, fetchVars, chatVars, profileVars, demoVars>>
    /\ UNCHANGED pagesVars

\* time passes
ClockAdvances ==
    /\ now < MaxTime
    /\ now' = now + 1
    /\ UNCHANGED <<statusMounted, statusInst, statusInterval,
                   statusIsConnected, statusIsChecking, lastChecked,
                   statusChecks, completedOrder, ticks>>
    /\ UNCHANGED <<apiVars, fetchVars, chatVars, profileVars, demoVars>>
    /\ UNCHANGED pagesVars

NextStatus ==
    \/ StatusMount
    \/ StatusUnmount
    \/ StatusTick
    \/ StatusRefresh
    \/ StatusCheckSettles
    \/ ClockAdvances

(***************************************************************************)
(* components/dashboard/APIDemo.tsx                                        *)
(***************************************************************************)
Null == [null |-> TRUE]               \* useState<any>(null)
NaN == "NaN"

\* what the user can have in the capacity input (type="number")
CapacityInputs == {<<"3", "0", "0", "0">>, <<>>, <<"2", ".", "5">>}
Objectives == {"balanced", "emissions"}

DigitChars == <<"0", "1", "2", "3", "4", "5", "6", "7", "8", "9">>
IsDigit(c) == \E i \in 1..Len(DigitChars) : DigitChars[i] = c
DigitValue(c) == (CHOOSE i \in 1..Len(DigitChars) : DigitChars[i] = c) - 1

\* the digits s starts with, read as a decimal number continuing acc
RECURSIVE leadingDigits(_, _)
leadingDigits(s, acc) ==
    IF s # <<>> /\ IsDigit(Head(s))
    THEN leadingDigits(Tail(s), acc * Len(DigitChars) + DigitValue(Head(s)))
    ELSE acc

\* parseInt of an unsigned input: the leading digits, NaN when there are none
parseInt(s) ==
    IF s # <<>> /\ IsDigit(Head(s)) THEN leadingDigits(s, 0) ELSE NaN

OptimizationCompleteToast ==
    [title |-> "Optimization Complete", variant |-> "default"]
OptimizationFailedToast ==
    [title |-> "Optimization Failed", variant |-> "destructive"]
StatusUpdatedToast ==
    [title |-> "System Status Updated", variant |-> "default"]
StatusFetchFailedToast ==
    [title |-> "Status Fetch Failed", variant |-> "destructive"]

\* cementOSAPI.optimize(request): the request handed to makeRequest
optimize(request) ==
    [method |-> "POST", endpoint |-> "/optimize", body |-> request]

\* cementOSAPI.getSystemStatus(): the request handed to makeRequest
getSystemStatus == [method |-> "GET", endpoint |-> "/status"]

\* the body a resolved call k hands to its setter
ResolvedBody(k, result) ==
    [call |-> k, success |-> result.success, response |-> result.response]

DemoMount ==
    /\ loads > 0
    /\ ~demoMounted
    /\ demoMounted' = TRUE
    /\ UNCHANGED <<isOptimizing, optimizationResult, plantCapacity, objective,
                   systemStatus, isLoadingStatus, demoToast, demoCalls>>
    /\ UNCHANGED <<apiVars, fetchVars, chatVars, profileVars, statusVars>>
    /\ UNCHANGED pagesVars

\* onChange of the capacity input: setPlantCapacity(e.target.value)
SetPlantCapacity ==
    /\ demoMounted
    /\ \E v \in CapacityInputs : v # plantCapacity /\ plantCapacity' = v
    /\ UNCHANGED <<demoMounted, isOptimizing, optimizationResult, objective,
                   systemStatus, isLoadingStatus, demoToast, demoCalls>>
    /\ UNCHANGED <<apiVars, fetchVars, chatVars, profileVars, statusVars>>
    /\ UNCHANGED pagesVars

\* onValueChange of the objective select: setObjective(value)
SetObjective ==
    /\ demoMounted
    /\ \E v \in Objectives : v # objective /\ objective' = v
    /\ UNCHANGED <<demoMounted, isOptimizing, optimizationResult,
                   plantCapacity, systemStatus, isLoadingStatus, demoToast,
                   demoCalls>>
    /\ UNCHANGED <<apiVars, fetchVars, chatVars, profileVars, statusVars>>
    /\ UNCHANGED pagesVars

\* handleOptimize up to its await
handleOptimize ==
    LET request ==
          [plant_capacity |-> parseInt(plantCapacity), objective |-> objective,
           constraints |-> [lsf_min |-> "92", lsf_max |-> "98",
                            sm_min |-> "2.2", sm_max |-> "2.8",
                            am_min |-> "1.2", am_max |-> "2.0"]]
    IN /\ isOptimizing' = TRUE
       /\ requests' = Append(requests, optimize(request))
       /\ demoCalls' = Append(demoCalls,
            [kind |-> "optimize", state |-> "inflight", outcome |-> "none"])

\* the Run Optimization button, disabled={isOptimizing}
ClickOptimize ==
    /\ demoMounted
    /\ ~isOptimizing
    /\ Len(demoCalls) < MaxDemoCalls
    /\ handleOptimize
    /\ UNCHANGED <<demoMounted, optimizationResult, plantCapacity, objective,
                   systemStatus, isLoadingStatus, demoToast>>
    /\ UNCHANGED <<sessionId, storage, resets, loads>>
    /\ UNCHANGED <<fetchVars, chatVars, profileVars, statusVars>>
    /\ UNCHANGED pagesVars

\* variant: the catch branch also drops the previous result
optimizeResponseClearsResult(k, outcome) ==
    LET result == makeRequest(outcome) IN
      /\ IF ~result.rejected
         THEN /\ optimizationResult' = ResolvedBody(k, result)
              /\ demoToast' = OptimizationCompleteToast
         ELSE /\ optimizationResult' = Null
              /\ demoToast' = OptimizationFailedToast
      /\ isOptimizing' = FALSE
      /\ UNCHANGED <<systemStatus, isLoadingStatus>>

\* handleOptimize after await cementOSAPI.optimize(request), for call k
optimizeResponse(k, outcome) ==
    LET result == makeRequest(outcome) IN
      /\ IF ~result.rejected
         THEN /\ optimizationResult' = ResolvedBody(k, result)
              /\ demoToast' = OptimizationCompleteToast
         ELSE /\ UNCHANGED optimizationResult
              /\ demoToast' = OptimizationFailedToast
      /\ isOptimizing' = FALSE
      /\ UNCHANGED <<systemStatus, isLoadingStatus>>

OptimizeSettles ==
    /\ \E k \in 1..Len(demoCalls), outcome \in FetchOutcomes :
         /\ demoCalls[k].kind = "optimize"
         /\ demoCalls[k].state = "inflight"
         /\ optimizeResponse(k, outcome)
         /\ demoCalls' = [demoCalls EXCEPT ![k].state = "done",
                                          ![k].outcome = outcome]
    /\ UNCHANGED <<demoMounted, plantCapacity, objective>>
    /\ UNCHANGED <<apiVars, fetchVars, chatVars, profileVars, statusVars>>
    /\ UNCHANGED pagesVars

\* fetchSystemStatus up to its await
fetchSystemStatus ==
    /\ isLoadingStatus' = TRUE
    /\ requests' = Append(requests, getSystemStatus)
    /\ demoCalls' = Append(demoCalls,
         [kind |-> "status", state |-> "inflight", outcome |-> "none"])

\* the Get System Status button, disabled={isLoadingStatus}
ClickFetchStatus ==
    /\ demoMounted
    /\ ~isLoadingStatus
    /\ Len(demoCalls) < MaxDemoCalls
    /\ fetchSystemStatus
    /\ UNCHANGED <<demoMounted, isOptimizing, optimizationResult,
                   plantCapacity, objective, systemStatus, demoToast>>
    /\ UNCHANGED <<sessionId, storage, resets, loads>>
    /\ UNCHANGED <<fetchVars, chatVars, profileVars, statusVars>>
    /\ UNCHANGED pagesVars

\* fetchSystemStatus after await cementOSAPI.getSystemStatus(), for call k
statusResponse(k, outcome) ==
    LET status == makeRequest(outcome) IN
      /\ IF ~status.rejected
         THEN /\ systemStatus' = ResolvedBody(k, status)
              /\ demoToast' = StatusUpdatedToast
         ELSE /\ UNCHANGED systemStatus
              /\ demoToast' = StatusFetchFailedToast
      /\ isLoadingStatus' = FALSE
      /\ UNCHANGED <<optimizationResult, isOptimizing>>

StatusFetchSettles ==
    /\ \E k \in 1..Len(demoCalls), outcome \in FetchOutcomes :
         /\ demoCalls[k].kind = "status"
         /\ demoCalls[k].state = "inflight"
         /\ statusResponse(k, outcome)
         /\ demoCalls' = [demoCalls EXCEPT ![k].state = "done",
                                          ![k].outcome = outcome]
    /\ UNCHANGED <<demoMounted, plantCapacity, objective>>
    /\ UNCHANGED <<apiVars, fetchVars, chatVars, profileVars, statusVars>>
    /\ UNCHANGED pagesVars

NextDemo ==
    \/ FirstPageLoad
    \/ DemoMount
    \/ SetPlantCapacity
    \/ SetObjective
    \/ ClickOptimize
    \/ OptimizeSettles
    \/ ClickFetchStatus
    \/ StatusFetchSettles

(***************************************************************************)
(* pages/Settings: the user list                                           *)
(***************************************************************************)
\* the variables of the components modelled above
coreVars == <<apiVars, fetchVars, chatVars, profileVars, statusVars, demoVars>>

users ==
    << [name |-> "Admin (You)", role |-> "Full Access", status |-> "active"],
       [name |-> "Plant Manager", role |-> "Dashboard + Process View",
        status |-> "active"],
       [name |-> "Operator", role |-> "Dashboard Only", status |-> "active"],
       [name |-> "Guest", role |-> "Read Only Access", status |-> "inactive"] >>

SettingsTabs == {"agents", "api", "users", "alerts"}

\* onValueChange of the tabs: setActiveTab
SetActiveTab ==
    /\ \E tab \in SettingsTabs :
         /\ tab # activeTab
         /\ activeTab' = tab
    /\ UNCHANGED <<usersList, settingsIsEditing, lastDeleteUser>>
    /\ UNCHANGED <<coreVars, testingVars, scenarioVars, panelVars>>

\* variant: the admin entry is not protected
handleDeleteUserNoGuard(index) ==
    usersList' = RemoveAt(usersList, index + 1)

\* index is the JavaScript index, counted from 0
handleDeleteUser(index) ==
    IF index > 0
    THEN usersList' = RemoveAt(usersList, index + 1)
    ELSE UNCHANGED usersList

\* a call of handleDeleteUser with the index of an entry of the list
CallDeleteUser ==
    /\ \E index \in 0..(Len(usersList) - 1) :
         /\ handleDeleteUser(index)
         /\ lastDeleteUser' = index
    /\ UNCHANGED <<activeTab, settingsIsEditing>>
    /\ UNCHANGED <<coreVars, testingVars, scenarioVars, panelVars>>

handleEditUser(index) ==
    settingsIsEditing' = "user-" \o ToString(index)

\* a call of handleEditUser with the index of an entry of the list
CallEditUser ==
    /\ \E index \in 0..(Len(usersList) - 1) : handleEditUser(index)
    /\ UNCHANGED <<activeTab, usersList, lastDeleteUser>>
    /\ UNCHANGED <<coreVars, testingVars, scenarioVars, panelVars>>

NextSettings ==
    \/ SetActiveTab
    \/ CallDeleteUser
    \/ CallEditUser

(***************************************************************************)
(* pages/Testing with KPITestConfiguration and LiveTestExecution           *)
(***************************************************************************)
\* ids of the objective cards of the form (two of the four) and what the
\* user types into the test name
TestObjectives == {"quality", "emissions"}
TestNames == {"", "t"}

\* progress is counted in tenths of a percent: a tick adds 0.1, the cap is 100
ProgressStep == 1
ProgressCap == 1000

\* the quality KPI in steps around its initial value 94.8; a tick moves it by
\* (Math.random() - 0.5) * 0.5 and clamps it with Math.max(90, Math.min(98, .))
KpiLow == -1
KpiHigh == 1
Jitter == {-1, 0, 1}
initialKPIs == [quality |-> 0]

Min(a, b) == IF a < b THEN a ELSE b
Max(a, b) == IF a > b THEN a ELSE b

\* the initial scenarios of SavedScenariosManager; a name is the sequence of
\* the pieces it was put together from
initialScenarios ==
    << [id |-> "1", name |-> <<"Energy Crisis Mode">>, created |-> "2 days ago",
        modified |-> "1 hour ago", status |-> "production", successRate |-> 94,
        runs |-> 23,
        parameters |-> [objective |-> "efficiency", duration |-> "8 hours",
                        speed |-> "5x"]],
       [id |-> "2", name |-> <<"Green Cement Protocol">>, created |-> "1 week ago",
        modified |-> "3 days ago", status |-> "validated", successRate |-> 87,
        runs |-> 15,
        parameters |-> [objective |-> "emissions", duration |-> "24 hours",
                        speed |-> "8x"]],
       [id |-> "3", name |-> <<"Quality First Emergency">>,
        created |-> "3 days ago", modified |-> "2 days ago",
        status |-> "production", successRate |-> 96, runs |-> 8,
        parameters |-> [objective |-> "quality", duration |-> "6 hours",
                        speed |-> "2x"]],
       [id |-> "4", name |-> <<"Maintenance Mode Optimization">>,
        created |-> "5 days ago", modified |-> "1 day ago",
        status |-> "draft", successRate |-> 78, runs |-> 5,
        parameters |-> [objective |-> "efficiency", duration |-> "12 hours",
                        speed |-> "4x"]] >>

\* testConfig is typed any: a value carries its JavaScript type
Num(n) == [number |-> n]
Str(s) == [string |-> s]

\* KPITestConfiguration is rendered: no active test and isCreatingTest
FormShown == activeTest = Null /\ isCreatingTest

\* a new instance of KPITestConfiguration, or none: the useState values
FormFresh == selectedObjective' = "" /\ testName' = ""

\* a new instance of LiveTestExecution: the useState values, and the effect
\* starts the interval because isPaused is false
LiveMount ==
    /\ progress' = 0
    /\ elapsedTime' = 0
    /\ isPaused' = FALSE
    /\ liveKPIs' = initialKPIs
    /\ liveInterval' = TRUE

\* LiveTestExecution is unmounted: the cleanup of the effect clears the
\* interval; the state of the instance is dropped
LiveUnmount ==
    /\ progress' = 0
    /\ elapsedTime' = 0
    /\ isPaused' = FALSE
    /\ liveKPIs' = initialKPIs
    /\ liveInterval' = FALSE

\* New Test of the page header (always rendered), Create New Test and New
\* KPI Test of the getting-started view: setIsCreatingTest(true)
ClickNewTest ==
    /\ isCreatingTest' = TRUE
    /\ UNCHANGED <<activeTest, formVars, liveVars>>
    /\ UNCHANGED <<coreVars, settingsVars, scenarioVars, panelVars>>

\* Cancel above the form: setIsCreatingTest(false)
ClickCancelTest ==
    /\ FormShown
    /\ isCreatingTest' = FALSE
    /\ FormFresh
    /\ UNCHANGED <<activeTest, liveVars>>
    /\ UNCHANGED <<coreVars, settingsVars, scenarioVars, panelVars>>

\* onChange of the test name
SetTestName ==
    /\ FormShown
    /\ \E v \in TestNames :
         /\ v # testName
         /\ testName' = v
    /\ UNCHANGED <<activeTest, isCreatingTest, selectedObjective, liveVars>>
    /\ UNCHANGED <<coreVars, settingsVars, scenarioVars, panelVars>>

\* click on an objective card
SetSelectedObjective ==
    /\ FormShown
    /\ \E id \in TestObjectives :
         /\ id # selectedObjective
         /\ selectedObjective' = id
    /\ UNCHANGED <<activeTest, isCreatingTest, testName, liveVars>>
    /\ UNCHANGED <<coreVars, settingsVars, scenarioVars, panelVars>>

\* handleStartTest of the page
handleStartTest(testConfig) ==
    /\ activeTest' = testConfig
    /\ isCreatingTest' = FALSE

\* Start Test of the form (disabled without objective or name):
\* handleStartTest of KPITestConfiguration builds the config and calls
\* onStartTest; the form goes away and LiveTestExecution is mounted
ClickStartTest ==
    /\ FormShown
    /\ selectedObjective # "" /\ testName # ""
    /\ handleStartTest([name |-> Str(testName),
                        objective |-> selectedObjective,
                        duration |-> Num(parseInt(<<"2", "4">>)),
                        speed |-> Num(parseInt(<<"1", "0">>))])
    /\ FormFresh
    /\ LiveMount
    /\ UNCHANGED <<coreVars, settingsVars, scenarioVars, panelVars>>

handleStopTest ==
    activeTest' = Null

\* Stop Test of LiveTestExecution: onStop
ClickStopTest ==
    /\ activeTest # Null
    /\ handleStopTest
    /\ LiveUnmount
    /\ UNCHANGED <<isCreatingTest, formVars>>
    /\ UNCHANGED <<coreVars, settingsVars, scenarioVars, panelVars>>

\* Load of a scenario card: onLoadScenario
LoadScenario ==
    /\ \E i \in 1..Len(scenarios) : isCreatingTest' = TRUE
    /\ UNCHANGED <<activeTest, formVars, liveVars>>
    /\ UNCHANGED <<coreVars, settingsVars, scenarioVars, panelVars>>

\* the callback onRunScenario of the page
onRunScenario(scenario) ==
    activeTest' = [name |-> Str(scenario.name),
                   objective |-> scenario.parameters.objective,
                   duration |-> Str(scenario.parameters.duration),
                   speed |-> Str(scenario.parameters.speed)]

\* Run of a scenario card, rendered in every view of the page: with no
\* active test LiveTestExecution is mounted, with an active test the same
\* instance is rendered again with the new testConfig and keeps its state
RunScenario ==
    /\ \E i \in 1..Len(scenarios) : onRunScenario(scenarios[i])
    /\ FormFresh
    /\ IF activeTest = Null THEN LiveMount ELSE UNCHANGED liveVars
    /\ UNCHANGED isCreatingTest
    /\ UNCHANGED <<coreVars, settingsVars, scenarioVars, panelVars>>

\* variant: pausing leaves the interval running
TogglePauseKeepsInterval ==
    /\ activeTest # Null
    /\ isPaused' = ~isPaused
    /\ liveInterval' = TRUE
    /\ UNCHANGED <<progress, elapsedTime, liveKPIs>>
    /\ UNCHANGED <<activeTest, isCreatingTest, formVars>>
    /\ UNCHANGED <<coreVars, settingsVars, scenarioVars, panelVars>>

\* Pause / Resume: setIsPaused(!isPaused); the effect depends on isPaused,
\* so its cleanup clears the interval and the effect sets a new one unless
\* the test is now paused
TogglePause ==
    /\ activeTest # Null
    /\ isPaused' = ~isPaused
    /\ liveInterval' = isPaused
    /\ UNCHANGED <<progress, elapsedTime, liveKPIs>>
    /\ UNCHANGED <<activeTest, isCreatingTest, formVars>>
    /\ UNCHANGED <<coreVars, settingsVars, scenarioVars, panelVars>>

\* the callback of the 100 ms interval
LiveTick ==
    /\ liveInterval
    /\ elapsedTime < MaxElapsed
    /\ progress' = Min(progress + ProgressStep, ProgressCap)
    /\ elapsedTime' = elapsedTime + 1
    /\ \E d \in Jitter :
         liveKPIs' = [quality |-> Max(KpiLow, Min(KpiHigh, liveKPIs.quality + d))]
    /\ UNCHANGED <<isPaused, liveInterval>>
    /\ UNCHANGED <<activeTest, isCreatingTest, formVars>>
    /\ UNCHANGED <<coreVars, settingsVars, scenarioVars, panelVars>>

\* the ticks of a short test
ShortTick == elapsedTime < MaxShortTicks /\ LiveTick

\* the Testing page with its form and short tests
NextTesting ==
    \/ ClickNewTest
    \/ ClickCancelTest
    \/ SetTestName
    \/ SetSelectedObjective
    \/ ClickStartTest
    \/ ClickStopTest
    \/ LoadScenario
    \/ RunScenario
    \/ TogglePause
    \/ ShortTick

\* a test run from a scenario up to its end
NextLive ==
    \/ RunScenario
    \/ ClickStopTest
    \/ TogglePause
    \/ LiveTick

(***************************************************************************)
(* testing/SavedScenariosManager                                           *)
(***************************************************************************)
\* Date.now() at the first look at the clock, in milliseconds
FirstNow == 1000
ScenarioNames == {"", "n"}

\* a millisecond passes
ClockTick ==
    /\ dateNow < FirstNow + MaxMillis
    /\ dateNow' = dateNow + 1
    /\ UNCHANGED <<scenarios, newScenarioName>>
    /\ UNCHANGED <<coreVars, settingsVars, testingVars, panelVars>>

\* onChange of the scenario name of the Save Current dialog
SetNewScenarioName ==
    /\ \E v \in ScenarioNames :
         /\ v # newScenarioName
         /\ newScenarioName' = v
    /\ UNCHANGED <<scenarios, dateNow>>
    /\ UNCHANGED <<coreVars, settingsVars, testingVars, panelVars>>

\* the scenarios of the list that were saved or duplicated
AddedScenarios ==
    {i \in 1..Len(scenarios) : scenarios[i].created = "Just now"}

handleSaveCurrentAsScenario ==
    LET newScenario ==
          [id |-> ToString(dateNow),
           name |-> IF newScenarioName # "" THEN <<newScenarioName>>
                    ELSE <<"New Scenario">>,
           created |-> "Just now", modified |-> "Just now",
           status |-> "draft", successRate |-> 0, runs |-> 0,
           parameters |-> [objective |-> "quality", duration |-> "12 hours",
                           speed |-> "10x"]]
    IN /\ scenarios' = <<newScenario>> \o scenarios
       /\ newScenarioName' = ""

\* Save Scenario of the dialog
ClickSaveScenario ==
    /\ Cardinality(AddedScenarios) < MaxScenarioAdds
    /\ handleSaveCurrentAsScenario
    /\ UNCHANGED dateNow
    /\ UNCHANGED <<coreVars, settingsVars, testingVars, panelVars>>

handleDeleteScenario(id) ==
    scenarios' = SelectSeq(scenarios, LAMBDA s : s.id # id)

\* the trash button of a scenario card
ClickDeleteScenario ==
    /\ Len(scenarios) > Len(initialScenarios) - MaxDeletes
    /\ \E i \in 1..Len(scenarios) : handleDeleteScenario(scenarios[i].id)
    /\ UNCHANGED <<newScenarioName, dateNow>>
    /\ UNCHANGED <<coreVars, settingsVars, testingVars, panelVars>>

handleDuplicateScenario(scenario) ==
    LET duplicated ==
          [scenario EXCEPT !.id = ToString(dateNow),
                           !.name = Append(scenario.name, " (Copy)"),
                           !.created = "Just now", !.modified = "Just now",
                           !.status = "draft", !.runs = 0, !.successRate = 0]
    IN scenarios' = <<duplicated>> \o scenarios

\* the copy button of a scenario card
ClickDuplicateScenario ==
    /\ Cardinality(AddedScenarios) < MaxScenarioAdds
    /\ \E i \in 1..Len(scenarios) :
         /\ Len(scenarios[i].name) <= MaxCopies
         /\ handleDuplicateScenario(scenarios[i])
    /\ UNCHANGED <<newScenarioName, dateNow>>
    /\ UNCHANGED <<coreVars, settingsVars, testingVars, panelVars>>

NextScenarios ==
    \/ ClockTick
    \/ SetNewScenarioName
    \/ ClickSaveScenario
    \/ ClickDeleteScenario
    \/ ClickDuplicateScenario

(***************************************************************************)
(* dashboard/QuickActionsPanel                                             *)
(***************************************************************************)
\* re numbers the sends of the chat: a reply carries the number of the send
\* that set its timer (0 for the greeting); timestamps are left out
panelGreeting == [type |-> "ai", message |-> <<"H", "e", "l", "l", "o">>, re |-> 0]

\* the canned responses (their first words), picked by
\* Math.floor(Math.random() * responses.length)
panelResponses ==
    << <<"B", "a", "s", "e", "d">>,
       <<"Y", "o", "u", "r", " ", "e">>,
       <<"Q", "u", "a", "l", "i", "t", "y">>,
       <<"I", " ", "n", "o", "t", "i", "c", "e">>,
       <<"Y", "o", "u", "r", " ", "p">> >>
\* what the user types into the chat input
PanelInputs == {<<>>, <<" ">>, <<"h">>, <<" ", "h">>}
OptimizationTypes == {"energy", "quality", "emissions"}

UserMessages == {i \in 1..Len(panelChatHistory) : panelChatHistory[i].type = "user"}
AiMessages == {i \in 1..Len(panelChatHistory) : panelChatHistory[i].type = "ai"}

\* a new instance of the panel: the useState values; timers of earlier
\* instances stay as they are
PanelMount ==
    /\ ~panelMounted
    /\ panelInst < MaxPanelMounts
    /\ panelMounted' = TRUE
    /\ panelInst' = panelInst + 1
    /\ panelIsOptimizing' = FALSE
    /\ optimizationProgress' = 0
    /\ chatMessage' = <<>>
    /\ panelChatHistory' = <<panelGreeting>>
    /\ UNCHANGED <<panelIntervals, replyTimers>>
    /\ UNCHANGED <<coreVars, settingsVars, testingVars, scenarioVars>>

\* the Dashboard page is left: the panel has no effect cleanup, so its
\* interval keeps running; last is the progress its owner rendered last
PanelUnmount ==
    /\ panelMounted
    /\ panelMounted' = FALSE
    /\ panelIntervals' =
         {[t EXCEPT !.last = IF t.inst = panelInst THEN optimizationProgress
                             ELSE t.last] : t \in panelIntervals}
    /\ UNCHANGED <<panelInst, panelIsOptimizing, optimizationProgress,
                   panelChatVars>>
    /\ UNCHANGED <<coreVars, settingsVars, testingVars, scenarioVars>>

handleOptimization(type) ==
    /\ panelIsOptimizing' = TRUE
    /\ optimizationProgress' = 0
    /\ panelIntervals' = panelIntervals \cup {[inst |-> panelInst, last |-> 0]}

\* click on a quick action card, rendered while isOptimizing is false
ClickQuickAction ==
    /\ panelMounted
    /\ ~panelIsOptimizing
    /\ \E type \in OptimizationTypes : handleOptimization(type)
    /\ UNCHANGED <<panelMounted, panelInst, panelChatVars>>
    /\ UNCHANGED <<coreVars, settingsVars, testingVars, scenarioVars>>

\* the updater passed to setOptimizationProgress by the interval timer
progressUpdater(timer, prev) ==
    IF prev >= 100
    THEN /\ panelIntervals' = panelIntervals \ {timer}
         /\ panelIsOptimizing' = FALSE
         /\ optimizationProgress' = 100
    ELSE /\ optimizationProgress' = prev + 5
         /\ UNCHANGED <<panelIsOptimizing, panelIntervals>>

\* a 200 ms tick of a live interval.  For the mounted instance React runs
\* the updater on the current progress.  For an unmounted instance the
\* update is never rendered: React either drops it or evaluates the updater
\* once against the progress rendered last, and the result is discarded
OptimizationTick ==
    /\ \E timer \in panelIntervals :
         IF panelMounted /\ timer.inst = panelInst
         THEN progressUpdater(timer, optimizationProgress)
         ELSE /\ \/ UNCHANGED panelIntervals
                 \/ /\ timer.last >= 100
                    /\ panelIntervals' = panelIntervals \ {timer}
              /\ UNCHANGED <<panelIsOptimizing, optimizationProgress>>
    /\ UNCHANGED <<panelMounted, panelInst, panelChatVars>>
    /\ UNCHANGED <<coreVars, settingsVars, testingVars, scenarioVars>>

\* onChange of the chat input and the two suggestion buttons
SetChatMessage ==
    /\ panelMounted
    /\ \E v \in PanelInputs :
         /\ v # chatMessage
         /\ chatMessage' = v
    /\ UNCHANGED <<panelChatHistory, replyTimers>>
    /\ UNCHANGED <<panelMounted, panelInst, optVars>>
    /\ UNCHANGED <<coreVars, settingsVars, testingVars, scenarioVars>>

\* variant: no reply is scheduled
handleSendMessageNoReply ==
    IF trim(chatMessage) = <<>>
    THEN UNCHANGED panelChatVars
    ELSE LET n == Cardinality(UserMessages) + 1 IN
         /\ n <= MaxPanelSends
         /\ panelChatHistory' =
              Append(panelChatHistory,
                     [type |-> "user", message |-> chatMessage, re |-> n])
         /\ chatMessage' = <<>>
         /\ UNCHANGED replyTimers

handleSendMessage ==
    IF trim(chatMessage) = <<>>
    THEN UNCHANGED panelChatVars
    ELSE LET n == Cardinality(UserMessages) + 1 IN
         /\ n <= MaxPanelSends
         /\ panelChatHistory' =
              Append(panelChatHistory,
                     [type |-> "user", message |-> chatMessage, re |-> n])
         /\ replyTimers' = Append(replyTimers, [inst |-> panelInst, re |-> n])
         /\ chatMessage' = <<>>

\* the Send button and Enter in the chat input
ClickPanelSend ==
    /\ panelMounted
    /\ handleSendMessage
    /\ UNCHANGED <<panelMounted, panelInst, optVars>>
    /\ UNCHANGED <<coreVars, settingsVars, testingVars, scenarioVars>>

\* the callback of the oldest pending setTimeout(..., 1000): timeouts of
\* equal delay run in the order they were set; the setter of an unmounted
\* instance changes nothing
ReplyTimerFires ==
    /\ replyTimers # <<>>
    /\ LET timer == Head(replyTimers) IN
         IF panelMounted /\ timer.inst = panelInst
         THEN \E r \in 1..Len(panelResponses) :
                panelChatHistory' =
                  Append(panelChatHistory,
                         [type |-> "ai", message |-> panelResponses[r],
                          re |-> timer.re])
         ELSE UNCHANGED panelChatHistory
    /\ replyTimers' = Tail(replyTimers)
    /\ UNCHANGED chatMessage
    /\ UNCHANGED <<panelMounted, panelInst, optVars>>
    /\ UNCHANGED <<coreVars, settingsVars, testingVars, scenarioVars>>

\* the simulated optimization over mounts and unmounts of the panel
NextPanelLife ==
    \/ PanelMount
    \/ PanelUnmount
    \/ ClickQuickAction
    \/ OptimizationTick

\* the chat of the panel
NextPanelChat ==
    \/ PanelMount
    \/ SetChatMessage
    \/ ClickPanelSend
    \/ ReplyTimerFires

(***************************************************************************)
(* Specifications                                                          *)
(***************************************************************************)
\* a fresh browser before the page is loaded: nothing in local storage,
\* cementOSAPI not constructed, no component mounted; the state variables of
\* the components hold the arguments of their useState calls
Init ==
    /\ storage = NoId
    /\ sessionId = NoId
    /\ requests = <<>>
    /\ resets = 0
    /\ loads = 0
    /\ chatMounted = FALSE
    /\ message = <<>>
    /\ isLoading = FALSE
    /\ isConnected = FALSE
    /\ chatHistory = <<greeting>>
    /\ exchanges = <<>>
    /\ healthInFlight = 0
    /\ healthStarted = 0
    /\ retryClicks = 0
    /\ lastHealth = "none"
    /\ chatToast = NoToast
    /\ teamMembers = managementTeam
    /\ isAddingMember = FALSE
    /\ newMember = emptyMember
    /\ profileToast = NoToast
    /\ profileMounted = FALSE
    /\ profileMounts = 0
    /\ isEditing = FALSE
    /\ plantInfo = plantData
    /\ plantInfoAtEdit = plantData
    /\ metricObjects = operationalMetrics
    /\ metrics = MetricRefs
    /\ isEditingMetrics = FALSE
    /\ projects = initiatives
    /\ isAddingProject = FALSE
    /\ newProject = emptyProject
    /\ compliance = certifications
    /\ isAddingCert = FALSE
    /\ newCert = emptyCert
    /\ statusMounted = FALSE
    /\ statusInst = 0
    /\ statusInterval = 0
    /\ statusIsConnected = "null"
    /\ statusIsChecking = FALSE
    /\ lastChecked = 0
    /\ statusChecks = <<>>
    /\ completedOrder = <<>>
    /\ ticks = 0
    /\ now = 1
    /\ settlements = <<>>
    /\ demoMounted = FALSE
    /\ isOptimizing = FALSE
    /\ optimizationResult = Null
    /\ plantCapacity = <<"3", "0", "0", "0">>
    /\ objective = "balanced"
    /\ systemStatus = Null
    /\ isLoadingStatus = FALSE
    /\ demoToast = NoToast
    /\ demoCalls = <<>>
    /\ activeTab = "agents"
    /\ usersList = users
    /\ settingsIsEditing = "null"
    /\ lastDeleteUser = Undefined
    /\ activeTest = Null
    /\ isCreatingTest = FALSE
    /\ selectedObjective = ""
    /\ testName = ""
    /\ progress = 0
    /\ elapsedTime = 0
    /\ isPaused = FALSE
    /\ liveKPIs = initialKPIs
    /\ liveInterval = FALSE
    /\ scenarios = initialScenarios
    /\ newScenarioName = ""
    /\ dateNow = FirstNow
    /\ panelMounted = FALSE
    /\ panelInst = 0
    /\ panelIsOptimizing = FALSE
    /\ optimizationProgress = 0
    /\ panelIntervals = {}
    /\ chatMessage = <<>>
    /\ panelChatHistory = <<panelGreeting>>
    /\ replyTimers = <<>>

NextApi ==
    \/ PageLoad
    \/ ApiSendMessage
    \/ ApiDeleteSession
    \/ resetSession

\* the API client driven directly
SpecApi ==
    /\ Init
    /\ [][NextApi]_vars

\* the API client with the responses of its requests
NextFetch ==
    \/ FirstPageLoad
    \/ ApiSendMessage
    \/ ApiDeleteSession
    \/ ApiRequestSettles

SpecFetch ==
    /\ Init
    /\ [][NextFetch]_vars

\* the chat widget over the API client
SpecChat ==
    /\ Init
    /\ [][NextChat]_vars

\* the chat widget; the 1 s timer of the offline branch does fire
SpecChatFair ==
    /\ SpecChat
    /\ WF_vars(OfflineTimerFires)

\* the Team tab of the profile modal
SpecProfile ==
    /\ Init
    /\ [][NextProfile]_vars

\* the profile modal mounted, edited, unmounted and mounted again
SpecProfileLife ==
    /\ Init
    /\ [][NextProfileLife]_vars

\* the add forms of projects and certifications
SpecProfileForms ==
    /\ Init
    /\ [][NextProfileForms]_vars

\* the API status indicator
SpecStatus ==
    /\ Init
    /\ [][NextStatus]_vars

\* the API demo panel of the dashboard
SpecDemo ==
    /\ Init
    /\ [][NextDemo]_vars

\* the user list of the Settings page
SpecSettings ==
    /\ Init
    /\ [][NextSettings]_vars

\* the Testing page
SpecTesting ==
    /\ Init
    /\ [][NextTesting]_vars

\* a live test execution
SpecLive ==
    /\ Init
    /\ [][NextLive]_vars

\* the saved scenarios
SpecScenarios ==
    /\ Init
    /\ [][NextScenarios]_vars

\* the simulated optimization; a live interval keeps ticking
SpecPanelLife ==
    /\ Init
    /\ [][NextPanelLife]_vars
    /\ WF_vars(OptimizationTick)

\* the chat of the panel; a pending timeout fires
SpecPanelChat ==
    /\ Init
    /\ [][NextPanelChat]_vars
    /\ WF_vars(ReplyTimerFires)

(***************************************************************************)
(* Properties of the chat widget                                           *)
(***************************************************************************)
Exchanges == 1..Len(exchanges)
\* the bot message that answers exchange k (k settled)
Reply(k) == chatHistory[exchanges[k].user + 1]
\* the replies of the offline branch
OfflineReplies == {offlineMessage(i) : i \in 1..Len(responses)}
\* the canned strings, with or without the [OFFLINE MODE] prefix
CannedReplies ==
    OfflineReplies \cup
    {[type |-> "bot", message |-> <<responses[i]>>,
      processingTime |-> Undefined, isError |-> FALSE] : i \in 1..Len(responses)}
\* a chat request that failed: non-2xx, network exception, unparsable body,
\* or a body with success = false
ChatFailed(outcome) ==
    outcome \in {"http_error", "network_error", "invalid_json",
                 "ok_unsuccessful"}
\* exchange k settles in this step
Settles(k) == k \in Exchanges /\ ~exchanges[k].settled /\ exchanges'[k].settled

\* C1: after a failed health check isConnected is false, and a send
\* accepted while isConnected is false issues no POST /chat request and is
\* answered from the offline response list.
C1_OfflineFallback ==
    /\ lastHealth = "failed" => ~isConnected
    /\ Cardinality(ChatRequests) =
         Cardinality({k \in Exchanges : exchanges[k].connected})
    /\ \A k \in Exchanges :
         ~exchanges[k].connected =>
           /\ exchanges[k].kind = "timer"
           /\ exchanges[k].settled => Reply(k) \in OfflineReplies

\* a failed health check, and a send accepted offline that was answered
\* without any request
C1_Witness ==
    /\ lastHealth = "failed"
    /\ requests = <<>>
    /\ \E k \in Exchanges : ~exchanges[k].connected /\ exchanges[k].settled

\* C4 as stated: a chat request that fails is answered with one of the
\* canned response strings.
C4_FailureAnsweredFromCannedList ==
    \A k \in Exchanges :
        (exchanges[k].settled /\ ChatFailed(exchanges[k].outcome))
          => Reply(k) \in CannedReplies

\* C4 amended: a chat request that fails for any of the reasons is answered
\* with the single apology message flagged isError, which is none of the
\* canned strings.
C4_FailureAnsweredWithApology ==
    \A k \in Exchanges :
        (exchanges[k].settled /\ ChatFailed(exchanges[k].outcome)) =>
          /\ Reply(k) = errorMessage
          /\ Reply(k).isError
          /\ Reply(k) \notin CannedReplies

\* both sends failed, one by a non-2xx status and one by success = false
C4_Witness ==
    /\ \E k \in Exchanges :
         exchanges[k].settled /\ exchanges[k].outcome = "http_error"
    /\ \E k \in Exchanges :
         exchanges[k].settled /\ exchanges[k].outcome = "ok_unsuccessful"

\* C5 as stated: after a failed POST /chat request isConnected is false.
C5_FailedChatSetsOffline ==
    [][\A k \in Exchanges :
         (Settles(k) /\ ChatFailed(exchanges'[k].outcome))
           => ~isConnected']_vars

\* C5 amended: only a failed health check clears isConnected; a POST /chat
\* request that fails leaves isConnected as it was.
C5_FailedChatKeepsFlag ==
    /\ [][\A k \in Exchanges :
            (Settles(k) /\ ChatFailed(exchanges'[k].outcome))
              => isConnected' = isConnected]_vars
    /\ [](lastHealth = "failed" => ~isConnected)

\* a request failed on the network and the widget still shows connected
C5_Witness ==
    /\ isConnected
    /\ \E k \in Exchanges :
         exchanges[k].settled /\ exchanges[k].outcome = "network_error"

\* C6: one POST /chat request per send accepted while connected and none
\* for the others, also after requests failed; one health check for the
\* mount and one per click of the retry button.
C6_NoAutomaticRetry ==
    /\ Len(requests) = Cardinality({k \in Exchanges : exchanges[k].kind = "post"})
    /\ Len(requests) <= Len(exchanges)
    /\ healthStarted = (IF chatMounted THEN 1 ELSE 0) + retryClicks

\* a request has failed, a health check has failed, the button was clicked
C6_Witness ==
    /\ retryClicks > 0
    /\ lastHealth = "failed"
    /\ \E k \in Exchanges :
         exchanges[k].settled /\ ChatFailed(exchanges[k].outcome)

\* positions a user message can have in chatHistory
UserPositions == 2..(2 * MaxSends)
OfflinePending(n) ==
    \E k \in Exchanges :
        /\ exchanges[k].user = n
        /\ ~exchanges[k].connected
        /\ ~exchanges[k].settled
OfflineAnswered(n) ==
    /\ Len(chatHistory) = n + 1
    /\ chatHistory[n + 1] \in OfflineReplies
    /\ ~isLoading

\* C7: a send accepted while isConnected is false is eventually answered:
\* exactly one bot message, from the offline list, follows its user message
\* and isLoading is false again, whatever the network does.
C7_OfflineSendAnswered ==
    \A n \in UserPositions : OfflinePending(n) ~> OfflineAnswered(n)

\* an offline send was answered while a health check is still unanswered
C7_Witness ==
    /\ ~isConnected
    /\ ~isLoading
    /\ healthInFlight > 0
    /\ \E k \in Exchanges :
         /\ ~exchanges[k].connected
         /\ exchanges[k].settled
         /\ Len(chatHistory) = exchanges[k].user + 1

\* C8: isConnected is the outcome of the most recently completed health
\* check (false before any), and a send accepted while it is true goes to
\* POST /chat.
C8_RetryRestoresLive ==
    /\ isConnected = (lastHealth = "ok")
    /\ \A k \in Exchanges :
         exchanges[k].connected =>
           /\ exchanges[k].kind = "post"
           /\ \E i \in ChatRequests :
                requests[i].message = chatHistory[exchanges[k].user].message

\* a health check failed, the retry succeeded, and a send went to the API
C8_Witness ==
    /\ retryClicks > 0
    /\ healthInFlight = 0
    /\ chatToast = ConnectionIssueToast
    /\ isConnected
    /\ \E k \in Exchanges : exchanges[k].connected /\ exchanges[k].kind = "post"

\* the exchanges that have not settled
Pending == {k \in Exchanges : ~exchanges[k].settled}

\* C14: at most one chat exchange is pending at any time, and isLoading is
\* true exactly while one is; while isLoading is true or the message is
\* blank no exchange is started and no request is issued.
C14_OnePendingExchange ==
    /\ [](Cardinality(Pending) <= 1 /\ (isLoading <=> Pending # {}))
    /\ [][(isLoading \/ trim(message) = <<>>) =>
            /\ Len(exchanges') = Len(exchanges)
            /\ requests' = requests]_vars

\* the second exchange is pending and a quick action has put a text into
\* the input meanwhile
C14_Witness ==
    /\ Len(exchanges) = 2
    /\ exchanges[1].settled
    /\ ~exchanges[2].settled
    /\ isLoading
    /\ trim(message) # <<>>

\* the bot messages that answer an exchange
ApiReplies ==
    {[type |-> "bot", message |-> <<ServerReply>>, processingTime |-> t,
      isError |-> FALSE] : t \in ProcessingTimes}

\* C15: chatHistory begins with the greeting; after it user and bot messages
\* alternate, one user message per accepted send and one bot message per
\* settled exchange, which is the API reply with its processing time, an
\* offline reply or the apology flagged isError; a step appends at most one
\* message and changes none.
C15_HistoryAlternates ==
    /\ [](/\ chatHistory[1] = greeting
          /\ Len(chatHistory) =
               1 + Len(exchanges) + Cardinality(Exchanges \ Pending)
          /\ \A i \in 2..Len(chatHistory) :
               chatHistory[i].type = IF i % 2 = 0 THEN "user" ELSE "bot"
          /\ \A k \in Exchanges \ Pending :
               /\ Reply(k) \in ApiReplies \cup OfflineReplies \cup {errorMessage}
               /\ Reply(k) = errorMessage => Reply(k).isError)
    /\ [][/\ Len(chatHistory') \in {Len(chatHistory), Len(chatHistory) + 1}
          /\ \A i \in 1..Len(chatHistory) :
               chatHistory'[i] = chatHistory[i]]_vars

\* an offline reply, then after a successful retry an API reply with its
\* processing time
C15_Witness ==
    /\ Len(chatHistory) = 5
    /\ chatHistory[3] \in OfflineReplies
    /\ chatHistory[5] \in ApiReplies
    /\ chatHistory[5].processingTime \in ProcessingTimes

(***************************************************************************)
(* Properties of the API client                                            *)
(***************************************************************************)
DefaultChatRequests == {i \in ChatRequests : ~Truthy(requests[i].custom)}

\* C2 as stated: all chat requests sent between two calls of resetSession
\* carry the same session id.
C2_EveryChatRequestSameId ==
    \A i, j \in ChatRequests :
        requests[i].epoch = requests[j].epoch
          => requests[i].session_id = requests[j].session_id

\* C2 amended: a page load takes the session id from local storage when one
\* is stored and generates and stores one only when none is, so a reload
\* keeps the id; all chat requests sent without a custom session id between
\* two calls of resetSession carry the same session id.
C2_SessionIdReused ==
    /\ [][loads' = loads + 1 =>
            /\ Truthy(storage) => (sessionId' = storage /\ storage' = storage)
            /\ ~Truthy(storage) =>
                 (sessionId' \in SessionIds /\ storage' = sessionId')
            /\ loads > 0 => sessionId' = sessionId]_vars
    /\ [](\A i, j \in DefaultChatRequests :
             requests[i].epoch = requests[j].epoch
               => requests[i].session_id = requests[j].session_id)

\* between the first and the second resetSession, a request before and a
\* request after a reload
C2_Witness ==
    /\ resets = 2
    /\ \E i, j \in DefaultChatRequests :
         /\ requests[i].epoch = 1 /\ requests[j].epoch = 1
         /\ requests[i].load = 1 /\ requests[j].load = 2
         /\ requests[i].session_id = requests[j].session_id

\* the request issued in this step, if one is
Issued == requests'[Len(requests')]
Issues(endpoint) ==
    /\ Len(requests') = Len(requests) + 1
    /\ Issued.endpoint = endpoint

\* C13: sendMessage(message, customSessionId) POSTs to /chat the given
\* message with session_id = customSessionId when that is a non-empty
\* string and the current session id otherwise, and leaves the in-memory and
\* the stored session id as they are, so that neither ever is a custom id.
C13_CustomIdForOneRequest ==
    /\ [][Issues("/chat") =>
            /\ Issued.method = "POST"
            /\ Issued.message = Issued.given
            /\ Issued.session_id =
                 IF Issued.custom \in CustomIds THEN Issued.custom ELSE sessionId
            /\ sessionId' = sessionId
            /\ storage' = storage]_vars
    /\ [](sessionId \notin CustomIds /\ storage \notin CustomIds)

\* a request with a custom id, then one with an empty custom id that
\* carries the session id again
C13_Witness ==
    /\ Len(requests) = 2
    /\ requests[1].endpoint = "/chat" /\ requests[1].custom \in CustomIds
    /\ requests[1].session_id = requests[1].custom
    /\ requests[2].endpoint = "/chat" /\ requests[2].custom = ""
    /\ requests[2].session_id = sessionId
    /\ sessionId = storage

\* outcomes with which fetch or response.json() throws, or the status is
\* not 2xx
NotOk == {"http_error", "network_error", "invalid_json"}

\* C16: makeRequest resolves, with the parsed body, exactly when the
\* response is 2xx and its body parses; for a non-2xx response and for an
\* exception of fetch or of JSON parsing it rejects and resolves with
\* nothing.
C16_ResolvesOnlyWhenOk ==
    \A k \in 1..Len(settlements) :
        LET outcome == settlements[k].outcome
            result == settlements[k].result
        IN /\ outcome \in NotOk <=> result.rejected
           /\ outcome = "ok_success" =>
                (result.success /\ result.response = ServerReply
                 /\ result.processing_time_ms \in ProcessingTimes)
           /\ outcome = "ok_unsuccessful" => ~result.success
           /\ result.rejected => (~result.success /\ result.response = "")

\* one request answered with a non-2xx status, the other with a 2xx body
C16_Witness ==
    /\ \E k \in 1..Len(settlements) :
         settlements[k].outcome = "http_error" /\ settlements[k].result.rejected
    /\ \E k \in 1..Len(settlements) :
         settlements[k].outcome = "ok_success" /\ ~settlements[k].result.rejected

\* C17: resetSession writes one generated id to the in-memory field and to
\* local storage, and once the client is constructed the in-memory session
\* id equals the stored one in every state.
C17_MemoryEqualsStorage ==
    /\ [][resets' = resets + 1 =>
            /\ sessionId' \in SessionIds
            /\ storage' = sessionId']_vars
    /\ [](loads > 0 => (sessionId = storage /\ Truthy(sessionId)))

\* after a reset and a reload, with a chat and a delete request issued
C17_Witness ==
    /\ resets > 0
    /\ loads = 2
    /\ sessionId = storage
    /\ \E i, j \in 1..Len(requests) :
         /\ requests[i].method = "POST" /\ requests[j].method = "DELETE"
         /\ requests[i].load = 1 /\ requests[j].load = 2

\* C18: deleteSession issues DELETE /sessions/<id> for the given id, or for
\* the current session id without one, and changes neither the in-memory
\* nor the stored id; a chat request sent after the current session was
\* deleted carries the deleted id as long as resetSession is not called.
C18_DeleteKeepsSessionId ==
    /\ [][Issues("/sessions/") =>
            /\ Issued.method = "DELETE"
            /\ Issued.session_id =
                 IF Issued.custom \in CustomIds THEN Issued.custom ELSE sessionId
            /\ sessionId' = sessionId
            /\ storage' = storage]_vars
    /\ [](\A i, j \in 1..Len(requests) :
             (/\ i < j
              /\ requests[i].method = "DELETE" /\ ~Truthy(requests[i].custom)
              /\ j \in DefaultChatRequests
              /\ requests[i].epoch = requests[j].epoch)
               => requests[j].session_id = requests[i].session_id)

\* the current session was deleted, the page reloaded, and a chat request
\* still carries the deleted id
C18_Witness ==
    /\ Len(requests) = 2
    /\ requests[1].method = "DELETE" /\ ~Truthy(requests[1].custom)
    /\ 2 \in DefaultChatRequests
    /\ requests[2].load > requests[1].load
    /\ requests[2].session_id = requests[1].session_id

(***************************************************************************)
(* Properties of the profile modal                                         *)
(***************************************************************************)
MissingRequired(m) == m.name = "" \/ m.role = "" \/ m.email = ""

\* C3: handleAddMember with name, role or email of the draft empty shows
\* the destructive Missing Information toast and changes neither the member
\* list nor the draft, and the add form stays open.
C3_MissingFieldRejected ==
    [][(ClickAddMember /\ MissingRequired(newMember)) =>
          /\ profileToast' = MissingInformationToast
          /\ profileToast'.variant = "destructive"
          /\ teamMembers' = teamMembers
          /\ newMember' = newMember
          /\ isAddingMember']_vars

\* the form was submitted with a name but no role
C3_Witness ==
    /\ profileToast = MissingInformationToast
    /\ isAddingMember
    /\ newMember.name # "" /\ newMember.role = ""
    /\ teamMembers = managementTeam

\* C11: whenever ProfileModal is mounted anew, its plant info, team
\* members, operational metrics with their targets, projects and
\* certifications equal the hard-coded initial values, whatever was edited
\* during an earlier mount.
C11_MountTakesLiterals ==
    [][profileMounts' = profileMounts + 1 =>
          /\ plantInfo' = plantData
          /\ teamMembers' = managementTeam
          /\ RenderedMetrics' = operationalMetrics
          /\ projects' = initiatives
          /\ compliance' = certifications]_vars

ProjectComplete(d) == d.name # "" /\ d.target # "" /\ d.deadline # ""
CertComplete(d) == d.name # "" /\ d.type # "" /\ d.issuer # ""

\* C12: handleAddProject appends the draft project if and only if its name,
\* target and deadline are all non-empty, and handleAddCertification appends
\* the draft certification if and only if its name, type and issuer are all
\* non-empty; otherwise the list is unchanged and the destructive Missing
\* Information toast is shown.
C12_RequiredFieldsOnly ==
    [][/\ ClickAddProject =>
            IF ProjectComplete(newProject)
            THEN projects' = Append(projects, newProject)
            ELSE /\ projects' = projects
                 /\ profileToast' = MissingInformationToast
                 /\ profileToast'.variant = "destructive"
       /\ ClickAddCert =>
            IF CertComplete(newCert)
            THEN compliance' = Append(compliance, newCert)
            ELSE /\ compliance' = compliance
                 /\ profileToast' = MissingInformationToast
                 /\ profileToast'.variant = "destructive"]_vars

\* a project was added with its optional fields empty, a certification was
\* added, and a second project lacking only its deadline was rejected
C12_Witness ==
    /\ Len(projects) = Len(initiatives) + 1
    /\ projects[Len(projects)].current = ""
    /\ Len(compliance) = Len(certifications) + 1
    /\ profileToast = MissingInformationToast
    /\ isAddingProject
    /\ newProject.name # "" /\ newProject.target # "" /\ newProject.deadline = ""

\* C21: a handleAddMember with name, role and email of the draft non-empty
\* appends exactly the draft at the end of teamMembers, keeps the existing
\* members in their order, empties the draft and closes the add form.
C21_AddAppendsDraft ==
    [][(ClickAddMember /\ ~MissingRequired(newMember)) =>
          /\ Len(teamMembers') = Len(teamMembers) + 1
          /\ teamMembers'[Len(teamMembers')] = newMember
          /\ \A i \in 1..Len(teamMembers) : teamMembers'[i] = teamMembers[i]
          /\ newMember' = emptyMember
          /\ ~isAddingMember']_vars

\* a member was added after the first literal member had been deleted
C21_Witness ==
    /\ profileToast = MemberAddedToast
    /\ Len(teamMembers) = Len(managementTeam)
    /\ teamMembers[1] = managementTeam[2]
    /\ teamMembers[Len(teamMembers)].name = "x"
    /\ newMember = emptyMember
    /\ ~isAddingMember

\* new is old without its element at position index, the rest in order
RemovedAt(old, new, index) ==
    /\ Len(new) = Len(old) - 1
    /\ \A i \in 1..Len(new) : new[i] = IF i < index THEN old[i] ELSE old[i + 1]

\* C22: handleDeleteMember, handleDeleteProject and
\* handleDeleteCertification each remove exactly the element at position
\* index (the one named by the toast) of their own list, keep the other
\* elements in order and leave the other two lists unchanged.
C22_DeleteRemovesIndex ==
    [][/\ DeleteMember =>
            \E index \in 1..Len(teamMembers) :
               /\ profileToast' = MemberRemovedToast(teamMembers[index].name)
               /\ RemovedAt(teamMembers, teamMembers', index)
               /\ projects' = projects /\ compliance' = compliance
       /\ DeleteProject =>
            \E index \in 1..Len(projects) :
               /\ profileToast' = ProjectRemovedToast(projects[index].name)
               /\ RemovedAt(projects, projects', index)
               /\ teamMembers' = teamMembers /\ compliance' = compliance
       /\ DeleteCert =>
            \E index \in 1..Len(compliance) :
               /\ profileToast' = CertificationRemovedToast(compliance[index].name)
               /\ RemovedAt(compliance, compliance', index)
               /\ teamMembers' = teamMembers /\ projects' = projects]_vars

\* the last certification was deleted after the second member
C22_Witness ==
    /\ profileToast =
         CertificationRemovedToast(certifications[Len(certifications)].name)
    /\ compliance = SubSeq(certifications, 1, Len(certifications) - 1)
    /\ teamMembers = <<managementTeam[1], managementTeam[3], managementTeam[4]>>
    /\ projects = initiatives

\* C23: Cancel of the plant information gives plantInfo the value it had
\* when the edit began, so values confirmed with Save Changes survive a
\* later Edit followed by Cancel.
C23_CancelRestoresEditStart ==
    [][CancelEditProfile => plantInfo' = plantInfoAtEdit]_vars

(***************************************************************************)
(* Properties of the API status indicator                                  *)
(***************************************************************************)
Checks == 1..Len(statusChecks)
InFlight == {c \in Checks : statusChecks[c].state = "inflight"}
\* check c of the mounted instance completes in this step
Completes(c) ==
    /\ c \in InFlight
    /\ statusChecks'[c].state = "done"
    /\ statusMounted /\ statusChecks[c].inst = statusInst

\* C9: a mount starts one health check and the interval, every tick of the
\* interval starts one more and happens only while the indicator is
\* mounted, and once it is unmounted the interval is cleared and no health
\* check is started.
C9_PeriodicPolling ==
    /\ [][/\ statusInst' = statusInst + 1 =>
               Len(statusChecks') = Len(statusChecks) + 1
          /\ ticks' = ticks + 1 =>
               (statusMounted /\ Len(statusChecks') = Len(statusChecks) + 1)
          /\ (~statusMounted /\ ~statusMounted') =>
               Len(statusChecks') = Len(statusChecks)]_vars
    /\ [](statusInterval = IF statusMounted THEN statusInst ELSE 0)

\* unmounted after a tick, with a check still in flight
C9_Witness ==
    /\ ~statusMounted
    /\ ticks > 0
    /\ Len(statusChecks) = ticks + statusInst
    /\ InFlight # {}

\* C10: a tick starts a new check and leaves the checks in flight as they
\* are, and every response of a check of the mounted indicator sets
\* isConnected and lastChecked, whichever check it belongs to.
C10_LastResponseWins ==
    [][/\ ticks' = ticks + 1 =>
            /\ Len(statusChecks') = Len(statusChecks) + 1
            /\ \A c \in Checks : statusChecks'[c] = statusChecks[c]
            /\ statusChecks'[Len(statusChecks')].state = "inflight"
       /\ \A c \in Checks :
            Completes(c) =>
              /\ statusIsConnected' = statusChecks'[c].outcome
              /\ lastChecked' = now]_vars

\* the check started first answered last, and its outcome is displayed
\* although the check started by the later tick said otherwise
C10_Witness ==
    /\ statusMounted
    /\ ticks > 0
    /\ \E c1, c2 \in Checks :
         /\ c1 < c2
         /\ statusChecks[c1].inst = statusInst /\ statusChecks[c2].inst = statusInst
         /\ statusChecks[c1].state = "done" /\ statusChecks[c2].state = "done"
         /\ completedOrder[Len(completedOrder)] = c1
         /\ statusChecks[c1].outcome # statusChecks[c2].outcome
         /\ statusIsConnected = statusChecks[c1].outcome

\* the checks of the mounted indicator that await their response
CurrentInFlight == {c \in InFlight : statusChecks[c].inst = statusInst}

\* C19 as stated: isChecking is true exactly in the states in which a health
\* check of the indicator is in flight.
C19_CheckingIffInFlight ==
    statusMounted => (statusIsChecking <=> CurrentInFlight # {})

\* C19 amended: isChecking is true only while a health check is in flight;
\* every start of a check sets it and every response clears it, also the
\* response of one of two overlapping checks while the other is in flight.
C19_CheckingUntilFirstResponse ==
    /\ [](statusMounted => (statusIsChecking => CurrentInFlight # {}))
    /\ [][/\ \A c \in Checks : Completes(c) => ~statusIsChecking'
          /\ (/\ Len(statusChecks') > Len(statusChecks)
              /\ statusMounted') => statusIsChecking']_vars

\* a check started by the timer is in flight and the spinner is off
C19_Witness ==
    /\ statusMounted
    /\ ticks > 0
    /\ ~statusIsChecking
    /\ CurrentInFlight # {}

(***************************************************************************)
(* Properties of the API demo panel                                        *)
(***************************************************************************)
\* call k settles in this step
DemoSettles(k) ==
    /\ k \in 1..Len(demoCalls)
    /\ demoCalls[k].state = "inflight"
    /\ demoCalls'[k].state = "done"

\* C20: when the call of handleOptimize (fetchSystemStatus) settles,
\* isOptimizing (isLoadingStatus) becomes false, failed or not; when it
\* failed, the destructive toast is shown and optimizationResult
\* (systemStatus) and everything else keep their values.
C20_FailureKeepsResult ==
    [][\A k \in 1..Len(demoCalls) :
         DemoSettles(k) =>
           /\ demoCalls[k].kind = "optimize" =>
                /\ ~isOptimizing'
                /\ demoCalls'[k].outcome \in NotOk =>
                     /\ optimizationResult' = optimizationResult
                     /\ demoToast' = OptimizationFailedToast
                     /\ demoToast'.variant = "destructive"
                     /\ UNCHANGED <<systemStatus, isLoadingStatus,
                                    plantCapacity, objective, requests>>
           /\ demoCalls[k].kind = "status" =>
                /\ ~isLoadingStatus'
                /\ demoCalls'[k].outcome \in NotOk =>
                     /\ systemStatus' = systemStatus
                     /\ demoToast' = StatusFetchFailedToast
                     /\ demoToast'.variant = "destructive"
                     /\ UNCHANGED <<optimizationResult, isOptimizing,
                                    plantCapacity, objective, requests>>]_vars

\* the first optimization succeeded, the second failed, and the result of
\* the first is still shown
C20_Witness ==
    /\ Len(demoCalls) = 2
    /\ demoCalls[1].kind = "optimize" /\ demoCalls[1].outcome = "ok_success"
    /\ demoCalls[2].kind = "optimize" /\ demoCalls[2].outcome \in NotOk
    /\ optimizationResult # Null
    /\ optimizationResult.call = 1
    /\ ~isOptimizing
    /\ demoToast = OptimizationFailedToast

(***************************************************************************)
(* Properties of the Settings page                                         *)
(***************************************************************************)
\* C24: handleDeleteUser(0) leaves usersList unchanged, handleDeleteUser
\* with an index above 0 removes exactly the entry at that index, and the
\* first entry of usersList is 'Admin (You)' in every state.
C24_AdminNotDeleted ==
    /\ [](usersList[1].name = "Admin (You)")
    /\ [][CallDeleteUser =>
            IF lastDeleteUser' = 0
            THEN usersList' = usersList
            ELSE RemovedAt(usersList, usersList', lastDeleteUser' + 1)]_vars

\* Plant Manager and Guest were deleted, then handleDeleteUser(0) was called
C24_Witness ==
    /\ lastDeleteUser = 0
    /\ Len(usersList) = 2
    /\ usersList[1] = users[1]
    /\ usersList[2] = users[3]

(***************************************************************************)
(* Properties of the Testing page and of the live test execution           *)
(***************************************************************************)
\* C25: on the Testing page isCreatingTest is false whenever a test is active
\* (activeTest is non-null), so Stop Test leads to the getting-started view
\* and never to the test-creation form.
C25_NotCreatingWhileActive ==
    /\ [](activeTest # Null => ~isCreatingTest)
    /\ [][ClickStopTest => ~isCreatingTest']_vars

\* C26: every test that is started, through Start Test or through Run on a
\* saved scenario, begins with progress 0, elapsed time 0 and not paused,
\* also when it is started while another test is running.
C26_StartsFromZero ==
    [][(ClickStartTest \/ RunScenario) =>
          (progress' = 0 /\ elapsedTime' = 0 /\ ~isPaused')]_vars

\* C27: while LiveTestExecution is paused no interval is live and progress,
\* elapsedTime and liveKPIs keep their values until Resume; a tick happens
\* only while running, raises progress by 0.1 up to the cap of 100 and
\* elapsedTime by 1; progress never decreases and never exceeds 100.
C27_PausedTicksFrozen ==
    /\ [](progress \in 0..ProgressCap)
    /\ [](isPaused => ~liveInterval)
    /\ [][(isPaused /\ isPaused') =>
            UNCHANGED <<progress, elapsedTime, liveKPIs>>]_vars
    /\ [][LiveTick =>
            /\ ~isPaused
            /\ progress' = Min(progress + ProgressStep, ProgressCap)
            /\ progress' >= progress
            /\ elapsedTime' = elapsedTime + 1]_vars

\* a test paused after a tick at the cap
C27_Witness ==
    /\ activeTest # Null
    /\ isPaused
    /\ progress = ProgressCap
    /\ elapsedTime = ProgressCap + 1

(***************************************************************************)
(* Properties of the quick actions panel                                   *)
(***************************************************************************)
\* C28: the progress of the simulated optimization is a multiple of 5 within
\* 0..100, no interval timer is live while the panel shows isOptimizing
\* false, and an optimization leads to progress 100 with the interval
\* cleared and isOptimizing false.
C28_OptimizationTerminates ==
    /\ [](optimizationProgress \in {5 * k : k \in 0..20})
    /\ []((panelMounted /\ ~panelIsOptimizing) => panelIntervals = {})
    /\ panelIsOptimizing ~>
         (optimizationProgress = 100 /\ panelIntervals = {}
            /\ ~panelIsOptimizing)

\* the re numbers of the messages of one type, in the order of the history
ReOf(type) ==
    LET picked == SelectSeq(panelChatHistory, LAMBDA m : m.type = type)
    IN [i \in 1..Len(picked) |-> picked[i].re]

C30_IdsDistinct ==
    /\ [](\A i, j \in 1..Len(scenarios) :
            i # j => scenarios[i].id # scenarios[j].id)
    /\ [][ClickDeleteScenario => Len(scenarios') = Len(scenarios) - 1]_vars

====
